---- MODULE Spec2Model ----
(***************************************************************************)
(* KARMA: the quality-control core of the knowledge-graph extraction       *)
(* pipeline.  Modelled here: the conflict resolver, the entity             *)
(* deduplication, the integration score and the quality gate.              *)
(*                                                                         *)
(* Strings that the code lowercases or strips are sequences of one-        *)
(* character strings, so that lower() and strip() are computed; labels the *)
(* code only compares for equality are TLA+ strings.  Scores are floats in *)
(* the code; here they are integers counting twentieths (0.05), and the    *)
(* weighted sum is kept multiplied by 4 so that it stays an integer.       *)
(***************************************************************************)
EXTENDS Integers, Sequences, FiniteSets, TLC

VARIABLES
    \* ConflictResolutionAgent.resolve_conflicts
    new_triples,        \* the batch passed as new_triples
    existing_triples,   \* the accepted list passed as existing_triples
    final_triples,      \* the list the call returns
    crPc,               \* "idle" | "call" | "done"
    \* ConflictResolutionAgent._find_contradiction on one pair, both ways
    fcA, fcB,           \* two triples
    fcAB,               \* _find_contradiction(fcA, [fcB])
    fcBA,               \* _find_contradiction(fcB, [fcA])
    fcPc,               \* "idle" | "call" | "done"
    \* EntityExtractionAgent._deduplicate_entities, called twice
    entityHeap,         \* the KGEntity objects: object id -> fields
    entities,           \* the list passed to the first call (object ids)
    entities0,          \* the fields of that list's objects at the first call
    unique1,            \* the list the first call returns (object ids)
    result1,            \* the fields of unique1's objects at that return
    unique2,            \* the list the call on unique1 returns (object ids)
    result2,            \* the fields of unique2's objects at that return
    dePc,               \* "idle" | "call" | "once" | "twice"
    \* EvaluatorAgent._aggregate_scores on a triple and on the same triple
    \* with one sub-score raised
    scT, scU,           \* the two triples
    scoreT, scoreU,     \* their integration scores (times 4)
    scPc,               \* "idle" | "call" | "done"
    \* EvaluatorAgent.finalize_triples
    integrate_threshold,    \* self.integrate_threshold
    candidate_triples,  \* the KnowledgeTriple objects of the list passed
    candidates0,        \* their fields at the call
    integrated_triples, \* the list returned: positions in candidate_triples
    gaPc,               \* "idle" | "call" | "done"
    \* IntermediateOutput.save_to_file, then load_from_file on the file
    run_record,         \* the IntermediateOutput saved
    json_file,          \* the JSON value in the file
    loaded_record,      \* the IntermediateOutput load_from_file returns
    rrPc,               \* "idle" | "save" | "load" | "done"
    \* The stages on one document, from ReaderAgent to relation extraction
    relevance_threshold,    \* the threshold passed to the reader and summarizer
    scored_segments,    \* what _score_segments_batch returned
    all_segments,       \* the first list ReaderAgent.process returns
    relevant_segments,  \* the second list ReaderAgent.process returns
    summarizer_input,   \* the list passed to SummarizerAgent.process
    summaries,          \* the list SummarizerAgent.process returns
    extracted_entities, \* the list EntityExtractionAgent.process returns
    relationships,      \* the list RelationshipExtractionAgent.process returns
    agent_metrics,      \* self.metrics of each agent
    summarizer_calls,   \* the completion calls of _summarize_single_segment
    entity_calls,       \* the calls of _extract_entities_from_text
    relation_calls,     \* the calls of _extract_relationships_from_text
    stPc,               \* "idle" | "read" | "summarize" | "entities" |
                        \* "relations" | "done" | "raised"
    \* SchemaAlignmentAgent.process on two lists
    saEntities,         \* the KGEntity objects of the list passed as entities
    saTriples,          \* the KnowledgeTriple objects of the list passed
    saEntities0,        \* the fields of the entities at the call
    saTriples0,         \* the fields of the triples at the call
    saPc,               \* "idle" | "call" | "done"
    \* The last stages on one document: Normalize-Schema, Resolve-Conflicts,
    \* Quality-Gate, each writing its field of the run record
    entity_objects,     \* the KGEntity objects: object id -> fields
    triple_objects,     \* the KnowledgeTriple objects: object id -> fields
    intermediate,       \* the IntermediateOutput: field -> list of object ids
    written,            \* field -> the fields of its objects when it was written
    plPc,               \* "idle" | "align" | "resolve" | "gate" | "done"
    \* RelationshipExtractionAgent._deduplicate_relationships, then
    \* SchemaAlignmentAgent.align_relationships on the list it returned
    rdRelationships,    \* the list passed to _deduplicate_relationships
    rdUnique,           \* the list it returns
    rdAligned,          \* that list after align_relationships
    rdPc,               \* "idle" | "call" | "unique" | "aligned"
    \* BaseAgent._make_llm_call, called while an agent processes, and
    \* reset_metrics
    mtMetrics,          \* self.metrics
    mtInvocations,      \* the calls of _make_llm_call since the metrics were set
    mtLast,             \* the last call: its outcome, the metrics before it,
                        \* whether it raised; <<>> when there is none
    mtPc,               \* "idle" | "run" | "complete"
    \* ReaderAgent._score_segments_batch
    rsSegments,         \* the argument segments
    rsScored,           \* scored_segments
    rsCalls,            \* the completion calls made so far: the ids of the
                        \* batch each was made for and its outcome
    rsPc                \* "idle" | "score" | "done"

crVars == <<new_triples, existing_triples, final_triples, crPc>>
fcVars == <<fcA, fcB, fcAB, fcBA, fcPc>>
deVars == <<entityHeap, entities, entities0, unique1, result1, unique2, result2, dePc>>
scVars == <<scT, scU, scoreT, scoreU, scPc>>
gaVars == <<integrate_threshold, candidate_triples, candidates0, integrated_triples, gaPc>>
earlyVars == <<crVars, fcVars, deVars, scVars, gaVars>>
rrVars == <<run_record, json_file, loaded_record, rrPc>>
stVars ==
    <<relevance_threshold, scored_segments, all_segments, relevant_segments,
      summarizer_input, summaries, extracted_entities, relationships,
      agent_metrics, summarizer_calls, entity_calls, relation_calls, stPc>>
plVars == <<entity_objects, triple_objects, intermediate, written, plPc>>
saVars == <<saEntities, saTriples, saEntities0, saTriples0, saPc>>
rdVars == <<rdRelationships, rdUnique, rdAligned, rdPc>>
mtVars == <<mtMetrics, mtInvocations, mtLast, mtPc>>
rsVars == <<rsSegments, rsScored, rsCalls, rsPc>>
laterVars == <<rrVars, stVars, plVars, saVars, rdVars, mtVars, rsVars>>
vars == <<earlyVars, laterVars>>

(***************************************************************************)
(* Strings                                                                 *)
(***************************************************************************)
Range(s) == {s[i] : i \in DOMAIN s}

\* The cased characters of the model's strings.
UpperCase ==
    <<"A", "B", "C", "D", "E", "F", "G", "H", "I", "J", "K", "L", "M",
      "N", "O", "P", "Q", "R", "S", "T", "U", "V", "W", "X", "Y", "Z">>

LowerCase ==
    <<"a", "b", "c", "d", "e", "f", "g", "h", "i", "j", "k", "l", "m",
      "n", "o", "p", "q", "r", "s", "t", "u", "v", "w", "x", "y", "z">>

\* str.lower() on one character.
LowerChar(c) ==
    IF \E k \in DOMAIN UpperCase : UpperCase[k] = c
    THEN LowerCase[CHOOSE k \in DOMAIN UpperCase : UpperCase[k] = c]
    ELSE c

\* str.lower()
Lower(s) == [i \in DOMAIN s |-> LowerChar(s[i])]

\* The whitespace str.strip() removes, among the characters of the model.
IsSpace(c) == c = " "

RECURSIVE LStrip(_)
LStrip(s) == IF s # <<>> /\ IsSpace(s[1]) THEN LStrip(Tail(s)) ELSE s

RECURSIVE RStrip(_)
RStrip(s) ==
    IF s # <<>> /\ IsSpace(s[Len(s)]) THEN RStrip(SubSeq(s, 1, Len(s) - 1)) ELSE s

\* str.strip()
Strip(s) == RStrip(LStrip(s))

RECURSIVE ListOfSet(_)
\* list(set(xs)): the elements once each.  Python fixes no order; this is
\* one of them, and the lists built this way are only read as sets.
ListOfSet(S) ==
    IF S = {} THEN <<>>
    ELSE LET x == CHOOSE y \in S : TRUE IN <<x>> \o ListOfSet(S \ {x})

(***************************************************************************)
(* KnowledgeTriple                                                         *)
(***************************************************************************)
KnowledgeTriple(h, r, t, c, cl, rv) ==
    [head |-> h, relation |-> r, tail |-> t, confidence |-> c,
     source |-> "unknown", relevance |-> rv, clarity |-> cl]

(***************************************************************************)
(* ConflictResolutionAgent                                                 *)
(***************************************************************************)
contradiction_pairs ==
    { <<"treats", "causes">>, <<"inhibits", "activates">>,
      <<"increases", "decreases">>, <<"upregulates", "downregulates">> }

\* rel_pair[::-1]
Reversed(p) == <<p[2], p[1]>>

\* Mutant: only the order (existing, new) of the pair is looked up.
ContradictsOneOrder(existing, new_triple) ==
    /\ Lower(existing.head) = Lower(new_triple.head)
    /\ Lower(existing.tail) = Lower(new_triple.tail)
    /\ <<existing.relation, new_triple.relation>> \in contradiction_pairs

\* Mutant: the tails are not compared.
ContradictsHeadOnly(existing, new_triple) ==
    /\ Lower(existing.head) = Lower(new_triple.head)
    /\ LET rel_pair == <<existing.relation, new_triple.relation>>
       IN  rel_pair \in contradiction_pairs
             \/ Reversed(rel_pair) \in contradiction_pairs

\* The test _find_contradiction applies to one existing triple.
Contradicts(existing, new_triple) ==
    /\ Lower(existing.head) = Lower(new_triple.head)
    /\ Lower(existing.tail) = Lower(new_triple.tail)
    /\ LET rel_pair == <<existing.relation, new_triple.relation>>
       IN  rel_pair \in contradiction_pairs
             \/ Reversed(rel_pair) \in contradiction_pairs

\* The position of the first existing triple that contradicts new_triple,
\* 0 when the loop ends without a return.
FirstContradiction(new_triple, existing) ==
    LET hits == {i \in DOMAIN existing : Contradicts(existing[i], new_triple)}
    IN  IF hits = {} THEN 0
        ELSE CHOOSE i \in hits : \A j \in hits : i <= j

\* Mutant: the last existing triple that contradicts is returned.
FindLastContradiction(new_triple, existing) ==
    LET hits == {i \in DOMAIN existing : Contradicts(existing[i], new_triple)}
    IN  IF hits = {} THEN <<>>
        ELSE <<existing[CHOOSE i \in hits : \A j \in hits : i >= j]>>

\* _find_contradiction: <<>> stands for None, <<t>> for the triple returned.
FindContradiction(new_triple, existing) ==
    LET i == FirstContradiction(new_triple, existing)
    IN  IF i = 0 THEN <<>> ELSE <<existing[i]>>

\* Mutant: a tie keeps the new triple.
KeepsOnTie(new_triple, existing) ==
    LET conflicting_triple == FindContradiction(new_triple, existing)
    IN  IF conflicting_triple # <<>>
        THEN new_triple.confidence >= conflicting_triple[1].confidence
        ELSE TRUE

\* Whether the loop body of resolve_conflicts appends new_triple.
Keeps(new_triple, existing) ==
    LET conflicting_triple == FindContradiction(new_triple, existing)
    IN  IF conflicting_triple # <<>>
        THEN new_triple.confidence > conflicting_triple[1].confidence
        ELSE TRUE

RECURSIVE ResolveLoopPrepend(_, _, _, _)
\* Mutant: a kept triple is put at the front of the list.
ResolveLoopPrepend(new, existing, i, acc) ==
    IF i > Len(new) THEN acc
    ELSE ResolveLoopPrepend(new, existing, i + 1,
                            IF Keeps(new[i], existing)
                            THEN <<new[i]>> \o acc ELSE acc)

RECURSIVE ResolveLoopConsistent(_, _, _, _)
\* Mutant: a new triple is also dropped when it contradicts a triple that
\* was kept before it.
ResolveLoopConsistent(new, existing, i, acc) ==
    IF i > Len(new) THEN acc
    ELSE ResolveLoopConsistent(new, existing, i + 1,
                               IF /\ Keeps(new[i], existing)
                                  /\ \A k \in DOMAIN acc :
                                        ~Contradicts(acc[k], new[i])
                               THEN Append(acc, new[i]) ELSE acc)

RECURSIVE ResolveLoop(_, _, _, _)
\* The for loop of resolve_conflicts from position i on.
ResolveLoop(new, existing, i, acc) ==
    IF i > Len(new) THEN acc
    ELSE ResolveLoop(new, existing, i + 1,
                     IF Keeps(new[i], existing) THEN Append(acc, new[i]) ELSE acc)

\* resolve_conflicts(new, existing)[0]
ResolveConflicts(new, existing) == ResolveLoop(new, existing, 1, <<>>)

(***************************************************************************)
(* KGEntity and EntityExtractionAgent._deduplicate_entities                *)
(***************************************************************************)
KGEntity(n, ty, nid, al) ==
    [entity_id |-> n, entity_type |-> ty, name |-> n,
     normalized_id |-> nid, aliases |-> al]

\* Mutant: the key is not lowercased.
EntityKeyNoLower(name) == Strip(name)

\* key = entity.name.lower().strip()
EntityKey(name) == Strip(Lower(name))

\* Mutant: a later specific type replaces the type already set.
MergeEntityLastTypeWins(existing, entity) ==
    [existing EXCEPT
        !.entity_type =
            IF entity.entity_type # "Unknown"
            THEN entity.entity_type ELSE @,
        !.aliases =
            IF entity.aliases # <<>>
            THEN ListOfSet(Range(@ \o entity.aliases)) ELSE @,
        !.normalized_id =
            IF entity.normalized_id # "N/A" /\ @ = "N/A"
            THEN entity.normalized_id ELSE @]

\* The merge of a repeated entity into the record kept for its key.
MergeEntity(existing, entity) ==
    [existing EXCEPT
        !.entity_type =
            IF entity.entity_type # "Unknown" /\ @ = "Unknown"
            THEN entity.entity_type ELSE @,
        !.aliases =
            IF entity.aliases # <<>>
            THEN ListOfSet(Range(@ \o entity.aliases)) ELSE @,
        !.normalized_id =
            IF entity.normalized_id # "N/A" /\ @ = "N/A"
            THEN entity.normalized_id ELSE @]

RECURSIVE DedupLoop(_, _, _, _, _)
\* The for loop of _deduplicate_entities from position i on.  The dict
\* unique_entities is keys (in insertion order) and vals (the object kept
\* for each key); heap holds the objects, which the merge updates in place.
DedupLoop(heap, list, i, keys, vals) ==
    IF i > Len(list) THEN [heap |-> heap, unique |-> vals]
    ELSE LET entity == heap[list[i]]
             key == EntityKey(entity.name)
         IN  IF \E j \in DOMAIN keys : keys[j] = key
             THEN LET j == CHOOSE k \in DOMAIN keys : keys[k] = key
                      existing == vals[j]
                  IN  DedupLoop([heap EXCEPT ![existing] = MergeEntity(@, entity)],
                                list, i + 1, keys, vals)
             ELSE DedupLoop(heap, list, i + 1,
                            Append(keys, key), Append(vals, list[i]))

\* Mutant: the guard for the empty list also catches a list of one.
DeduplicateEntitiesShortGuard(heap, list) ==
    IF Len(list) <= 1 THEN [heap |-> heap, unique |-> <<>>]
    ELSE DedupLoop(heap, list, 1, <<>>, <<>>)

\* _deduplicate_entities(list): the objects after the call and the list
\* returned, list(unique_entities.values()).
DeduplicateEntities(heap, list) ==
    IF list = <<>> THEN [heap |-> heap, unique |-> <<>>]
    ELSE DedupLoop(heap, list, 1, <<>>, <<>>)

\* The fields of the objects of a list.
Fields(heap, list) == [i \in DOMAIN list |-> heap[list[i]]]

(***************************************************************************)
(* EvaluatorAgent                                                          *)
(***************************************************************************)
\* The score 1.0, in twentieths.
One == 20

\* The value 0.5 that replaces a sub-score <= 0, in twentieths.
DefaultScore == 10

\* Mutant: relevance is subtracted.
AggregateScoresMinus(triple) ==
    2 * triple.confidence + triple.clarity - triple.relevance

\* _aggregate_scores, times 4:
\* 0.5 * confidence + 0.25 * clarity + 0.25 * relevance.
AggregateScores(triple) ==
    2 * triple.confidence + triple.clarity + triple.relevance

\* "Ensure all metrics are set": the three assignments of finalize_triples.
SetMetrics(triple) ==
    [triple EXCEPT
        !.confidence = IF @ <= 0 THEN DefaultScore ELSE @,
        !.clarity = IF @ <= 0 THEN DefaultScore ELSE @,
        !.relevance = IF @ <= 0 THEN DefaultScore ELSE @]

\* Mutant: a score equal to the threshold is not enough.
MeetsThresholdStrict(triple, threshold) ==
    AggregateScores(triple) > 4 * threshold

\* integration_score >= self.integrate_threshold
MeetsThreshold(triple, threshold) ==
    AggregateScores(triple) >= 4 * threshold

RECURSIVE FinalizeLoop(_, _, _, _)
\* The for loop of finalize_triples from position i on: heap holds the
\* triple objects, which the loop assigns to; acc is integrated_triples.
FinalizeLoop(heap, threshold, i, acc) ==
    IF i > Len(heap) THEN [heap |-> heap, integrated |-> acc]
    ELSE LET triple == SetMetrics(heap[i])
         IN  FinalizeLoop([heap EXCEPT ![i] = triple], threshold, i + 1,
                          IF MeetsThreshold(triple, threshold)
                          THEN Append(acc, i) ELSE acc)

\* finalize_triples(candidate_triples)[0], and the objects after the call.
FinalizeTriples(heap, threshold) == FinalizeLoop(heap, threshold, 1, <<>>)

(***************************************************************************)
(* IntermediateOutput: the run record and its JSON form                    *)
(*                                                                         *)
(* A value that has a class is a record [cls, data]: cls is the class of   *)
(* the object ("KGEntity", "KnowledgeTriple", "DocumentMetadata",          *)
(* "ProcessingMetrics"), "dict" for a plain dictionary and "NoneType" for  *)
(* None; data holds the fields.                                            *)
(***************************************************************************)
DocumentMetadata(title) ==
    [title |-> title, authors |-> <<>>, journal |-> "Unknown Journal",
     pub_date |-> "N/A", doi |-> "N/A", pmid |-> "N/A",
     document_type |-> "article"]

ProcessingMetrics(error_count) ==
    [prompt_tokens |-> 0, completion_tokens |-> 0, processing_time |-> 0,
     agent_times |-> <<>>, error_count |-> error_count]

None == [cls |-> "NoneType", data |-> [none |-> TRUE]]

\* An instance of class cls with the given fields.
Instance(cls, data) == [cls |-> cls, data |-> data]

\* dataclasses.asdict on one value: an object becomes the dictionary of its
\* fields, None stays None.
AsDict(value) ==
    IF value.cls = "NoneType" THEN value ELSE Instance("dict", value.data)

\* The fields of IntermediateOutput whose declared type is a list of objects.
ObjectListFields ==
    {"entities", "relationships", "aligned_entities", "aligned_triples",
     "final_triples", "integrated_triples"}

\* IntermediateOutput.to_dict: asdict(self) has already turned every nested
\* object into a dictionary, so no item has a to_dict and each value is
\* copied as it is.  json.dump and json.load keep strings, numbers, lists,
\* dictionaries and None as they are.
ToDict(self) ==
    [key \in DOMAIN self |->
        IF key \in ObjectListFields
        THEN [i \in DOMAIN self[key] |-> AsDict(self[key][i])]
        ELSE IF key \in {"metadata", "metrics"} THEN AsDict(self[key])
        ELSE self[key]]

\* IntermediateOutput.load_from_file on the value read from the file: the
\* loop over data.items() with its four typed branches and the setattr of
\* the else branch.
LoadFromFile(data) ==
    [key \in DOMAIN data |->
        LET value == data[key]
        IN  IF key = "entities" /\ value # <<>>
            THEN [i \in DOMAIN value |-> Instance("KGEntity", value[i].data)]
            ELSE IF /\ key \in {"relationships", "aligned_triples",
                                "final_triples", "integrated_triples"}
                    /\ value # <<>>
            THEN [i \in DOMAIN value |->
                     Instance("KnowledgeTriple", value[i].data)]
            ELSE IF key = "metadata" /\ value.cls # "NoneType"
            THEN Instance("DocumentMetadata", value.data)
            ELSE IF key = "metrics" /\ value.cls # "NoneType"
            THEN Instance("ProcessingMetrics", value.data)
            ELSE value]


(***************************************************************************)
(* BaseAgent: the completion call and the parse of its structured output   *)
(*                                                                         *)
(* What the language model does is an input: an outcome is a record        *)
(* [kind, content, prompt_tokens, completion_tokens, time].  The kind is   *)
(* "fail" when client.chat.completions.create raises, "no_content" when    *)
(* the message of the response has no content (None has no strip),         *)
(* "no_usage" when the response has no usage, "unparsable" when the        *)
(* content is not JSON, "ok" otherwise.  The token counts are those of     *)
(* response.usage, integers; time is the time the call took, in ticks.     *)
(***************************************************************************)
\* self.metrics as __init__ and reset_metrics set it.
InitialMetrics ==
    [total_calls |-> 0, total_prompt_tokens |-> 0,
     total_completion_tokens |-> 0, total_time |-> 0, error_count |-> 0]

\* The outcomes with which the try block of _make_llm_call raises before it
\* reaches the update of the metrics.
Raises(outcome) == outcome.kind \in {"fail", "no_content", "no_usage"}

\* Mutant: the except clause starts the metrics again.
MakeLlmCallResetOnError(metrics, outcome) ==
    IF Raises(outcome)
    THEN [metrics |-> [InitialMetrics EXCEPT !.error_count = 1],
          raised |-> TRUE]
    ELSE [metrics |->
              [metrics EXCEPT
                  !.total_calls = @ + 1,
                  !.total_prompt_tokens = @ + outcome.prompt_tokens,
                  !.total_completion_tokens = @ + outcome.completion_tokens,
                  !.total_time = @ + outcome.time],
          raised |-> FALSE]

\* Mutant: a call that fails is counted in total_calls too.
MakeLlmCallCountsFailure(metrics, outcome) ==
    IF Raises(outcome)
    THEN [metrics |->
              [metrics EXCEPT
                  !.total_calls = @ + 1,
                  !.error_count = @ + 1,
                  !.total_time = @ + outcome.time],
          raised |-> TRUE]
    ELSE [metrics |->
              [metrics EXCEPT
                  !.total_calls = @ + 1,
                  !.total_prompt_tokens = @ + outcome.prompt_tokens,
                  !.total_completion_tokens = @ + outcome.completion_tokens,
                  !.total_time = @ + outcome.time],
          raised |-> FALSE]

\* _make_llm_call: the metrics after the call, and whether it raised.
MakeLlmCall(metrics, outcome) ==
    IF Raises(outcome)
    THEN [metrics |->
              [metrics EXCEPT
                  !.error_count = @ + 1,
                  !.total_time = @ + outcome.time],
          raised |-> TRUE]
    ELSE [metrics |->
              [metrics EXCEPT
                  !.total_calls = @ + 1,
                  !.total_prompt_tokens = @ + outcome.prompt_tokens,
                  !.total_completion_tokens = @ + outcome.completion_tokens,
                  !.total_time = @ + outcome.time],
          raised |-> FALSE]

\* _parse_json_response: json.JSONDecodeError is caught and [] returned.
ParseJsonResponse(outcome) ==
    IF outcome.kind = "unparsable" THEN <<>> ELSE outcome.content

(***************************************************************************)
(* ReaderAgent, SummarizerAgent                                            *)
(*                                                                         *)
(* Segment texts and summaries are TLA+ strings; the string functions of      *)
(* the heuristics are tabulated on the strings of the model, each value    *)
(* being what the code returns for that string.                            *)
(***************************************************************************)
\* Mutant: the filter keeps every segment.
RelevantSegmentsAll(scored, threshold) == scored

\* ReaderAgent.process: the list comprehension that filters the scored
\* segments.
RelevantSegments(scored, threshold) ==
    SelectSeq(scored, LAMBDA seg : seg.score >= threshold)

\* len(text.split())
WordCount(text) ==
    CASE text = "TP53 is up" -> 3
      [] text = "HK2 is up in it so we do go to it as if by an ox or so" -> 18

\* _extract_key_sentences(text), called on texts of 15 words or more: no
\* sentence of this text scores above 0.3, so its first 100 words are
\* returned, followed by '...'.
ExtractKeySentences(text) ==
    CASE text = "HK2 is up in it so we do go to it as if by an ox or so" -> "HK2 is up in it so we do go to it as if by an ox or so..."

\* _summarize_single_segment: the metrics after it and the summary.  The
\* responses of the model are shorter than 120 words, so none is truncated.
SummarizeSingleSegment(metrics, text, outcome) ==
    IF WordCount(text) < 15
    THEN [metrics |-> metrics, called |-> FALSE, summary |-> text]
    ELSE LET call == MakeLlmCall(metrics, outcome)
         IN  [metrics |-> call.metrics, called |-> TRUE,
              summary |->
                  IF call.raised THEN ExtractKeySentences(text)
                  ELSE IF outcome.content \in {"", "[LOW CONTENT]"}
                       THEN ExtractKeySentences(text)
                       ELSE outcome.content]

\* Mutant: the relevance of the segment is not looked at.
SummarizeNoSentinel(metrics, segment, threshold, outcome) ==
    SummarizeSingleSegment(metrics, segment.text, outcome)

\* The body of the for loop of SummarizerAgent.process for one segment (a
\* dictionary with its text and score).
Summarize(metrics, segment, threshold, outcome) ==
    IF segment.score < threshold
    THEN [metrics |-> metrics, called |-> FALSE,
          summary |-> "[OMITTED - Low Relevance]"]
    ELSE SummarizeSingleSegment(metrics, segment.text, outcome)

RECURSIVE SummarizerProcess(_, _, _, _, _, _, _)
\* SummarizerAgent.process from segment i on; summary_list is the list
\* built, calls lists the completion calls made (position, text, outcome,
\* summary returned).
SummarizerProcess(metrics, segments, threshold, outcomes, i, summary_list, calls) ==
    IF i > Len(segments)
    THEN [metrics |-> metrics, summaries |-> summary_list, calls |-> calls]
    ELSE LET Next(r) ==
                 SummarizerProcess(
                     r.metrics, segments, threshold, outcomes, i + 1,
                     Append(summary_list, r.summary),
                     IF r.called
                     THEN Append(calls, [index |-> i, text |-> segments[i].text,
                                         outcome |-> outcomes[i].kind,
                                         result |-> r.summary])
                     ELSE calls)
         IN  Next(Summarize(metrics, segments[i], threshold, outcomes[i]))

(***************************************************************************)
(* EntityExtractionAgent.process                                           *)
(***************************************************************************)
\* _fallback_entity_extraction(text) on the summaries of the model: with
\* re.IGNORECASE the first Gene pattern matches every word of three or more
\* letters and digits, the second the symbols that end in digits.
FallbackEntityExtraction(text) ==
    LET Gene(mention) == KGEntity(mention, "Gene", "N/A", <<>>)
        TP53 == Gene(<<"T", "P", "5", "3">>)
        HK2 == Gene(<<"H", "K", "2">>)
        binds == Gene(<<"b", "i", "n", "d", "s">>)
    IN  CASE text = "TP53 is up" -> << TP53, TP53 >>
          [] text = "HK2 is up in it so we do go to it as if by an ox or so..." ->
                << HK2, HK2 >>
          [] text = "TP53 binds HK2" -> << TP53, binds, HK2, TP53, HK2 >>

\* The test of both process loops on a summary:
\* summary and summary not in ["[OMITTED - Low Relevance]", "[LOW CONTENT]"].
IsExtractable(summary) ==
    summary # "" /\ summary \notin {"[OMITTED - Low Relevance]", "[LOW CONTENT]"}

\* Mutant: no except clause, the failure of the call leaves the method.
ExtractEntitiesFromTextRaising(metrics, text, outcome) ==
    LET call == MakeLlmCall(metrics, outcome)
    IN  [metrics |-> call.metrics, raised |-> call.raised,
         entities |-> IF call.raised THEN <<>> ELSE ParseJsonResponse(outcome)]

\* _extract_entities_from_text: every item of the parsed response has a
\* "mention" and becomes a KGEntity; an exception of the call is caught and
\* answered by the patterns.
ExtractEntitiesFromText(metrics, text, outcome) ==
    LET call == MakeLlmCall(metrics, outcome)
    IN  [metrics |-> call.metrics, raised |-> FALSE,
         entities |-> IF call.raised THEN FallbackEntityExtraction(text)
                      ELSE ParseJsonResponse(outcome)]

RECURSIVE EntityProcessLoop(_, _, _, _, _, _)
\* The for loop of EntityExtractionAgent.process from summary i on: calls
\* lists the summaries passed to _extract_entities_from_text (position,
\* text, outcome of the completion call, entities returned).
EntityProcessLoop(metrics, summary_list, outcomes, i, all_entities, calls) ==
    IF i > Len(summary_list)
    THEN [metrics |-> metrics, raised |-> FALSE,
          all_entities |-> all_entities, calls |-> calls]
    ELSE IF ~IsExtractable(summary_list[i])
    THEN EntityProcessLoop(metrics, summary_list, outcomes, i + 1,
                           all_entities, calls)
    ELSE LET Next(r) ==
                 LET call == [index |-> i, text |-> summary_list[i],
                              outcome |-> outcomes[i].kind,
                              result |-> r.entities]
                 IN  IF r.raised
                     THEN [metrics |-> r.metrics, raised |-> TRUE,
                           all_entities |-> all_entities,
                           calls |-> Append(calls, call)]
                     ELSE EntityProcessLoop(r.metrics, summary_list, outcomes,
                                            i + 1, all_entities \o r.entities,
                                            Append(calls, call))
         IN  Next(ExtractEntitiesFromText(metrics, summary_list[i],
                                          outcomes[i]))

\* EntityExtractionAgent.process(summaries): the loop, then
\* _deduplicate_entities on the objects collected.
EntityProcess(metrics, summary_list, outcomes) ==
    LET Unique(d) == Fields(d.heap, d.unique)
        Return(r) ==
            [metrics |-> r.metrics, raised |-> r.raised, calls |-> r.calls,
             entities |->
                 IF r.raised THEN <<>>
                 ELSE Unique(DeduplicateEntities(
                          r.all_entities, [k \in DOMAIN r.all_entities |-> k]))]
    IN  Return(EntityProcessLoop(metrics, summary_list, outcomes, 1, <<>>, <<>>))


(***************************************************************************)
(* RelationshipExtractionAgent.process                                     *)
(*                                                                         *)
(* Entity names and relation labels are sequences of characters here; an   *)
(* item of the parsed response is a record [head, relation, tail,          *)
(* confidence].                                                            *)
(***************************************************************************)
\* sub in s
Contains(s, sub) ==
    \E i \in 0..(Len(s) - Len(sub)) : SubSeq(s, i + 1, i + Len(sub)) = sub

\* _entity_exists
EntityExists(entity_name, entity_list) ==
    \E k \in DOMAIN entity_list : Lower(entity_list[k]) = Lower(entity_name)

\* min(1.0, max(0.1, x)), in twentieths
Clamp(x) == IF x > 20 THEN 20 ELSE IF x < 2 THEN 2 ELSE x

\* _estimate_clarity, in twentieths
EstimateClarity(head, relation, tail) ==
    LET specific_relations ==
            { <<"t", "r", "e", "a", "t", "s">>,
              <<"i", "n", "h", "i", "b", "i", "t", "s">>,
              <<"a", "c", "t", "i", "v", "a", "t", "e", "s">>,
              <<"c", "a", "u", "s", "e", "s">>,
              <<"r", "e", "g", "u", "l", "a", "t", "e", "s">> }
        generic_terms ==
            { <<"p", "r", "o", "t", "e", "i", "n">>,
              <<"g", "e", "n", "e">>, <<"d", "r", "u", "g">>,
              <<"d", "i", "s", "e", "a", "s", "e">>,
              <<"c", "h", "e", "m", "i", "c", "a", "l">> }
        general_relations ==
            { <<"a", "s", "s", "o", "c", "i", "a", "t", "e", "d", "_", "w", "i", "t", "h">>,
              <<"i", "n", "t", "e", "r", "a", "c", "t", "s", "_", "w", "i", "t", "h">> }
    IN  Clamp(10
              + (IF Lower(relation) \in specific_relations THEN 4 ELSE 0)
              + (IF Lower(head) \notin generic_terms THEN 2 ELSE 0)
              + (IF Lower(tail) \notin generic_terms THEN 2 ELSE 0)
              - (IF Lower(relation) \in general_relations THEN 2 ELSE 0))

\* _estimate_relevance, in twentieths
EstimateRelevance(head, relation, tail) ==
    LET therapeutic_relations ==
            { <<"t", "r", "e", "a", "t", "s">>,
              <<"p", "r", "e", "v", "e", "n", "t", "s">>,
              <<"c", "a", "u", "s", "e", "s">>,
              <<"i", "n", "h", "i", "b", "i", "t", "s">>,
              <<"a", "c", "t", "i", "v", "a", "t", "e", "s">> }
        disease_keywords ==
            { <<"c", "a", "n", "c", "e", "r">>,
              <<"d", "i", "s", "e", "a", "s", "e">>,
              <<"d", "i", "s", "o", "r", "d", "e", "r">>,
              <<"s", "y", "n", "d", "r", "o", "m", "e">>,
              <<"i", "n", "f", "e", "c", "t", "i", "o", "n">> }
        drug_keywords ==
            { <<"d", "r", "u", "g">>,
              <<"m", "e", "d", "i", "c", "a", "t", "i", "o", "n">>,
              <<"i", "n", "h", "i", "b", "i", "t", "o", "r">>,
              <<"a", "g", "o", "n", "i", "s", "t">>,
              <<"a", "n", "t", "a", "g", "o", "n", "i", "s", "t">>,
              <<"t", "h", "e", "r", "a", "p", "y">> }
        AnyOf(keywords) ==
            \E keyword \in keywords :
                Contains(Lower(head), keyword) \/ Contains(Lower(tail), keyword)
    IN  Clamp(10
              + (IF Lower(relation) \in therapeutic_relations THEN 4 ELSE 0)
              + (IF AnyOf(disease_keywords) THEN 2 ELSE 0)
              + (IF AnyOf(drug_keywords) THEN 2 ELSE 0))


\* Mutant: only the head is looked up in the entity list.
ValidProposalHeadOnly(rel_data, entity_names) ==
    EntityExists(Strip(rel_data.head), entity_names)

\* The validation of one proposed relation: head and tail, stripped, are
\* both names of the entity list.
ValidProposal(rel_data, entity_names) ==
    /\ EntityExists(Strip(rel_data.head), entity_names)
    /\ EntityExists(Strip(rel_data.tail), entity_names)

\* _extract_relationships_from_text: with fewer than two entities no call
\* is made; an exception of the call is caught and [] returned.
ExtractRelationshipsFromText(metrics, text, entity_list, outcome) ==
    IF Len(entity_list) < 2
    THEN [metrics |-> metrics, called |-> FALSE, triples |-> <<>>]
    ELSE LET call == MakeLlmCall(metrics, outcome)
             entity_names == [k \in DOMAIN entity_list |-> entity_list[k].name]
             kept == SelectSeq(ParseJsonResponse(outcome),
                               LAMBDA d : ValidProposal(d, entity_names))
             Triple(d) ==
                 [KnowledgeTriple(
                      Strip(d.head), Strip(d.relation), Strip(d.tail),
                      d.confidence,
                      EstimateClarity(Strip(d.head), d.relation, Strip(d.tail)),
                      EstimateRelevance(Strip(d.head), d.relation, Strip(d.tail)))
                  EXCEPT !.source = "relationship_extraction"]
         IN  [metrics |-> call.metrics, called |-> TRUE,
              triples |-> IF call.raised THEN <<>>
                          ELSE [k \in DOMAIN kept |-> Triple(kept[k])]]

\* The key of _deduplicate_relationships:
\* f"{rel.head.lower()}__{rel.relation.lower()}__{rel.tail.lower()}"
RelationKey(rel) ==
    Lower(rel.head) \o <<"_", "_">> \o Lower(rel.relation) \o <<"_", "_">>
        \o Lower(rel.tail)

RECURSIVE DeduplicateRelationshipsOnTie(_, _, _, _)
\* Mutant: a triple of equal confidence takes the place too.
DeduplicateRelationshipsOnTie(rels, i, keys, vals) ==
    IF i > Len(rels) THEN vals
    ELSE LET rel == rels[i]
             key == RelationKey(rel)
         IN  IF \E j \in DOMAIN keys : keys[j] = key
             THEN LET j == CHOOSE k \in DOMAIN keys : keys[k] = key
                  IN  DeduplicateRelationshipsOnTie(
                          rels, i + 1, keys,
                          IF rel.confidence >= vals[j].confidence
                          THEN [vals EXCEPT ![j] = rel] ELSE vals)
             ELSE DeduplicateRelationshipsOnTie(rels, i + 1,
                                                Append(keys, key),
                                                Append(vals, rel))

RECURSIVE DeduplicateRelationships(_, _, _, _)
\* _deduplicate_relationships from position i on: the dict unique_rels is
\* keys (in insertion order) and vals; a triple of higher confidence takes
\* the place of the one kept for its key.
DeduplicateRelationships(rels, i, keys, vals) ==
    IF i > Len(rels) THEN vals
    ELSE LET rel == rels[i]
             key == RelationKey(rel)
         IN  IF \E j \in DOMAIN keys : keys[j] = key
             THEN LET j == CHOOSE k \in DOMAIN keys : keys[k] = key
                  IN  DeduplicateRelationships(
                          rels, i + 1, keys,
                          IF rel.confidence > vals[j].confidence
                          THEN [vals EXCEPT ![j] = rel] ELSE vals)
             ELSE DeduplicateRelationships(rels, i + 1,
                                           Append(keys, key), Append(vals, rel))

RECURSIVE RelationProcessLoop(_, _, _, _, _, _, _)
\* The for loop of RelationshipExtractionAgent.process from summary i on:
\* calls lists the summaries passed to _extract_relationships_from_text.
RelationProcessLoop(metrics, summary_list, entity_list, outcomes, i, all, calls) ==
    IF i > Len(summary_list)
    THEN [metrics |-> metrics, all_relationships |-> all, calls |-> calls]
    ELSE IF ~IsExtractable(summary_list[i])
    THEN RelationProcessLoop(metrics, summary_list, entity_list, outcomes, i + 1,
                             all, calls)
    ELSE LET Next(r) ==
                 LET call == [index |-> i, text |-> summary_list[i],
                              outcome |-> IF r.called THEN outcomes[i].kind
                                          ELSE "no call",
                              proposed |-> IF r.called
                                           THEN ParseJsonResponse(outcomes[i])
                                           ELSE <<>>,
                              result |-> r.triples]
                 IN  RelationProcessLoop(r.metrics, summary_list, entity_list,
                                         outcomes, i + 1, all \o r.triples,
                                         Append(calls, call))
         IN  Next(ExtractRelationshipsFromText(metrics, summary_list[i],
                                               entity_list, outcomes[i]))

\* RelationshipExtractionAgent.process(summaries, entities)
RelationProcess(metrics, summary_list, entity_list, outcomes) ==
    IF entity_list = <<>>
    THEN [metrics |-> metrics, calls |-> <<>>, relationships |-> <<>>]
    ELSE LET Return(r) ==
                 [metrics |-> r.metrics, calls |-> r.calls,
                  relationships |->
                      DeduplicateRelationships(r.all_relationships, 1,
                                               <<>>, <<>>)]
         IN  Return(RelationProcessLoop(metrics, summary_list, entity_list,
                                        outcomes, 1, <<>>, <<>>))


(***************************************************************************)
(* SchemaAlignmentAgent                                                    *)
(***************************************************************************)
\* The dict synonyms of _normalize_relation, as pairs <<key, value>>.
synonyms ==
    { <<<<"i", "n", "h", "i", "b", "i", "t">>,
        <<"i", "n", "h", "i", "b", "i", "t", "s">>>>,
      <<<<"i", "n", "h", "i", "b", "i", "t", "e", "d">>,
        <<"i", "n", "h", "i", "b", "i", "t", "s">>>>,
      <<<<"t", "r", "e", "a", "t">>,
        <<"t", "r", "e", "a", "t", "s">>>>,
      <<<<"t", "r", "e", "a", "t", "e", "d">>,
        <<"t", "r", "e", "a", "t", "s">>>>,
      <<<<"c", "a", "u", "s", "e">>,
        <<"c", "a", "u", "s", "e", "s">>>>,
      <<<<"c", "a", "u", "s", "e", "d">>,
        <<"c", "a", "u", "s", "e", "s">>>>,
      <<<<"a", "c", "t", "i", "v", "a", "t", "e">>,
        <<"a", "c", "t", "i", "v", "a", "t", "e", "s">>>>,
      <<<<"a", "c", "t", "i", "v", "a", "t", "e", "s">>,
        <<"a", "c", "t", "i", "v", "a", "t", "e", "s">>>>,
      <<<<"a", "s", "s", "o", "c", "i", "a", "t", "e", "d", " ", "w", "i", "t", "h">>,
        <<"a", "s", "s", "o", "c", "i", "a", "t", "e", "d", "_", "w", "i", "t", "h">>>>,
      <<<<"i", "n", "t", "e", "r", "a", "c", "t", "s", " ", "w", "i", "t", "h">>,
        <<"i", "n", "t", "e", "r", "a", "c", "t", "s", "_", "w", "i", "t", "h">>>> }

\* _normalize_relation: synonyms.get(relation.lower(), relation.lower())
NormalizeRelation(relation) ==
    LET key == Lower(relation)
    IN  IF \E p \in synonyms : p[1] = key
        THEN (CHOOSE p \in synonyms : p[1] = key)[2]
        ELSE key

\* The tests of the four rules of _classify_entity_type, in the order of
\* the code: Drug, Gene, Protein, Disease.
DrugRule(entity_name) ==
    \E suffix \in { <<"m", "y", "c", "i", "n">>, <<"c", "i", "l", "l", "i", "n">>,
          <<"s", "t", "a", "t", "i", "n">>,
          <<"i", "n", "h", "i", "b", "i", "t", "o", "r">> } :
        Contains(Lower(entity_name), suffix)

\* entity_name.isupper() (some cased character, and no lowercase one)
\* and len(entity_name) <= 10
GeneRule(entity_name) ==
    /\ \E i \in DOMAIN entity_name :
           LowerChar(entity_name[i]) # entity_name[i]
    /\ \A i \in DOMAIN entity_name :
           \A k \in DOMAIN LowerCase : entity_name[i] # LowerCase[k]
    /\ Len(entity_name) <= 10

ProteinRule(entity_name) ==
    \E suffix \in { <<"a", "s", "e">>, <<"r", "e", "c", "e", "p", "t", "o", "r">>,
          <<"p", "r", "o", "t", "e", "i", "n">> } :
        Contains(Lower(entity_name), suffix)

DiseaseRule(entity_name) ==
    \E keyword \in { <<"c", "a", "n", "c", "e", "r">>,
          <<"d", "i", "s", "e", "a", "s", "e">>,
          <<"s", "y", "n", "d", "r", "o", "m", "e">>,
          <<"d", "i", "s", "o", "r", "d", "e", "r">> } :
        Contains(Lower(entity_name), keyword)

\* Mutant: the gene rule is tried before the drug rule.
ClassifyEntityTypeGeneFirst(entity_name) ==
    IF GeneRule(entity_name) THEN "Gene"
    ELSE IF DrugRule(entity_name) THEN "Drug"
    ELSE IF ProteinRule(entity_name) THEN "Protein"
    ELSE IF DiseaseRule(entity_name) THEN "Disease"
    ELSE "Chemical"

\* _classify_entity_type
ClassifyEntityType(entity_name) ==
    IF DrugRule(entity_name) THEN "Drug"
    ELSE IF GeneRule(entity_name) THEN "Gene"
    ELSE IF ProteinRule(entity_name) THEN "Protein"
    ELSE IF DiseaseRule(entity_name) THEN "Disease"
    ELSE "Chemical"

\* Mutant: every entity of the list is classified again.
AlignEntitiesAll(heap, list) ==
    [k \in DOMAIN heap |->
        IF k \in Range(list)
        THEN [heap[k] EXCEPT !.entity_type = ClassifyEntityType(heap[k].name)]
        ELSE heap[k]]

\* align_entities on the objects of a list: the type of an entity whose
\* type is "Unknown" is assigned; the list itself is returned.
AlignEntities(heap, list) ==
    [k \in DOMAIN heap |->
        IF k \in Range(list) /\ heap[k].entity_type = "Unknown"
        THEN [heap[k] EXCEPT !.entity_type = ClassifyEntityType(heap[k].name)]
        ELSE heap[k]]

\* align_relationships on the objects of a list: every relation is
\* assigned; the list itself is returned.
AlignRelationships(heap, list) ==
    [k \in DOMAIN heap |->
        IF k \in Range(list)
        THEN [heap[k] EXCEPT !.relation = NormalizeRelation(heap[k].relation)]
        ELSE heap[k]]


(***************************************************************************)
(* ReaderAgent: the scoring of the segments                                *)
(*                                                                         *)
(* The scores of this part are integers in hundredths (0.5 is 50, 1.0 is   *)
(* 100): the default scores of the sections and their products with 0.5    *)
(* and 1.1 are whole hundredths.  A segment is a record with the identity  *)
(* of its dict (id), its section and its word_count; a scored segment is   *)
(* the same dict with the key score set.  The response of a completion     *)
(* call is the list of its lines, response.strip().split('\n'), which has  *)
(* at least one line.                                                      *)
(***************************************************************************)
\* batch_size of _score_segments_batch.
batch_size == 5

\* The default of _extract_float_from_text in _batch_score_relevance, also
\* the score appended for a missing line: 0.5.
HalfScore == 50

\* re.findall(r"[-+]?\d*\.\d+|\d+", text) on the lines of the model, each
\* match as the float it converts to.
FloatMatches(text) ==
    CASE text = "0.7" -> <<70>>
      [] text = "Segment 2: 0.9" -> <<200, 90>>
      [] text = "-0.3" -> <<-30>>
      [] text = "high" -> <<>>

\* Mutant: the first match is returned as it is.
ExtractFloatFromTextUnclamped(text, default) ==
    IF FloatMatches(text) # <<>> THEN FloatMatches(text)[1] ELSE default

\* BaseAgent._extract_float_from_text(text, default).
ExtractFloatFromText(text, default) ==
    LET float_matches == FloatMatches(text)
        score == float_matches[1]
        least == IF score < 100 THEN score ELSE 100
    IN IF float_matches # <<>>
       THEN IF least > 0 THEN least ELSE 0
       ELSE default

\* ReaderAgent._get_default_score(segment).
GetDefaultScore(segment) ==
    LET section_type == segment.section
        base_score ==
            CASE section_type = "results" -> 80
              [] section_type = "discussion" -> 70
              [] section_type = "abstract" -> 60
              [] section_type \in {"introduction", "content"} -> 50
              [] section_type = "methods" -> 30
              [] section_type \in {"references", "acknowledgments", "funding"} -> 10
              [] section_type \in {"supplementary", "header"} -> 20
              [] section_type = "figure_caption" -> 40
              [] OTHER -> 50
        adjusted ==
            IF segment.word_count < 10 THEN base_score \div 2
            ELSE IF segment.word_count > 100 THEN (base_score * 11) \div 10
            ELSE base_score
        least == IF adjusted < 100 THEN adjusted ELSE 100
    IN IF least > 0 THEN least ELSE 0

\* ReaderAgent._batch_score_relevance(segments): the scores it returns when
\* its completion call, made for a batch that is not empty, has this
\* outcome: "fail" (the call raises) or "ok" with the lines of the response.
BatchScoreRelevance(segments, outcome) ==
    IF segments = <<>> THEN <<>>
    ELSE IF outcome.kind = "fail"
    THEN [i \in DOMAIN segments |-> GetDefaultScore(segments[i])]
    ELSE LET lines == outcome.lines
             scores == [i \in DOMAIN lines |->
                            ExtractFloatFromText(lines[i], HalfScore)]
             padded == scores \o [i \in 1..(Len(segments) - Len(scores)) |->
                                      HalfScore]
         IN SubSeq(padded, 1, Len(segments))


(***************************************************************************)
(* Inputs of the conflict resolver                                         *)
(***************************************************************************)
\* Confidences 0.6 and 0.9, in twentieths.
CRConfidences == {12, 18}
CRHeads == { <<"a", "s">>, <<"A", "s">> }
CRTails == { <<"h">>, <<"k">> }
CRRelations == {"treats", "causes"}
CRTriples ==
    { KnowledgeTriple(h, r, t, c, 10, 10) :
        h \in CRHeads, r \in CRRelations, t \in CRTails, c \in CRConfidences }

\* new_triples and existing_triples hold at most this many triples together.
MaxCRTriples == 3

\* One pair of triples for the symmetry of the test.
FCHeads == { <<"a", "s">>, <<"A", "S">>, <<"k">> }
FCTails == { <<"h">>, <<"H">>, <<"k">> }
FCRelations ==
    {"treats", "causes", "Treats", "inhibits", "activates", "increases",
     "decreases", "upregulates", "downregulates", "binds"}
FCTriples ==
    { KnowledgeTriple(h, r, t, 12, 10, 10) :
        h \in FCHeads, r \in FCRelations, t \in FCTails }

CRIdle ==
    /\ new_triples = <<>>
    /\ existing_triples = <<>>
    /\ final_triples = <<>>
    /\ crPc = "idle"

FCIdle ==
    /\ fcA = <<>>
    /\ fcB = <<>>
    /\ fcAB = <<>>
    /\ fcBA = <<>>
    /\ fcPc = "idle"

\* Entities to deduplicate.
DENames == { <<"T", "P">>, <<"t", "p", " ">>, <<"k">> }
DETypes == {"Unknown", "Gene", "Protein"}
DEIds == {"N/A", "NCBI:1", "NCBI:2"}
DEAliases == { <<>>, <<"p53">>, <<"TRP53">> }
DEEntities ==
    { KGEntity(n, ty, nid, al) :
        n \in DENames, ty \in DETypes, nid \in DEIds, al \in DEAliases }

\* The list passed to _deduplicate_entities holds at most this many entities.
MaxEntities == 2

DEIdle ==
    /\ entityHeap = <<>>
    /\ entities = <<>>
    /\ entities0 = <<>>
    /\ unique1 = <<>>
    /\ result1 = <<>>
    /\ unique2 = <<>>
    /\ result2 = <<>>
    /\ dePc = "idle"

\* Sub-scores in [0, 1] for the integration score.
SCScores == {0, 5, 10, 14, 20}
SCTriples ==
    { KnowledgeTriple(<<"a", "s">>, "treats", <<"h">>, c, cl, rv) :
        c \in SCScores, cl \in SCScores, rv \in SCScores }

SCIdle ==
    /\ scT = <<>>
    /\ scU = <<>>
    /\ scoreT = 0
    /\ scoreU = 0
    /\ scPc = "idle"

\* Candidates of the quality gate: -0.1 and 0 are scores that count as
\* unset.  On these values the float comparison of the code and the
\* integer comparison of the model agree.
GAConfidences == {-2, 0, 8, 14, 18, 20}
GAClarities == {0, 10, 20}
GARelevances == {0, 10, 20}
GATriples ==
    { KnowledgeTriple(<<"a", "s">>, "treats", <<"h">>, c, cl, rv) :
        c \in GAConfidences, cl \in GAClarities, rv \in GARelevances }

\* Thresholds 0.6 (the default) and 0.8.
GAThresholds == {12, 16}

\* The list passed to finalize_triples holds at most this many triples.
MaxCandidates == 2

GAIdle ==
    /\ integrate_threshold = 0
    /\ candidate_triples = <<>>
    /\ candidates0 = <<>>
    /\ integrated_triples = <<>>
    /\ gaPc = "idle"

(***************************************************************************)
(* Run records to save                                                     *)
(***************************************************************************)
RRRecords ==
    LET e1 == Instance("KGEntity", KGEntity(<<"k">>, "Drug", "N/A", <<>>))
        e2 == Instance("KGEntity",
                       KGEntity(<<"T", "P">>, "Unknown", "N/A", << <<"t">> >>))
        t1 == Instance("KnowledgeTriple",
                       KnowledgeTriple(<<"k">>, "treats", <<"h">>, 18, 10, 14))
        entity_lists == { <<>>, <<e1>>, <<e1, e2>> }
        triple_lists == { <<>>, <<t1>> }
        segment_lists == { <<>>, << [text |-> "text", score |-> 10] >> }
    IN  [ raw_text : {"", "text"},
          metadata : {None,
                      Instance("DocumentMetadata", DocumentMetadata("T"))},
          segments : segment_lists,
          relevant_segments : segment_lists,
          summaries : { <<>>, <<"text">> },
          entities : entity_lists,
          relationships : triple_lists,
          aligned_entities : entity_lists,
          aligned_triples : triple_lists,
          final_triples : triple_lists,
          integrated_triples : triple_lists,
          metrics : { Instance("ProcessingMetrics", ProcessingMetrics(n)) :
                        n \in {0, 1} } ]

RRIdle ==
    /\ run_record = <<>>
    /\ json_file = <<>>
    /\ loaded_record = <<>>
    /\ rrPc = "idle"

(***************************************************************************)
(* Inputs of the stages Reader, Summarizer, Entity and Relation extraction *)
(***************************************************************************)
\* Segments as _score_segments_batch returns them: a text of 3 words and
\* one of 18, with a score below the threshold (0.1) or equal to it (0.2),
\* in twentieths.
STSegments ==
    [ text : {"TP53 is up",
              "HK2 is up in it so we do go to it as if by an ox or so"},
      score : {2, 4} ]

\* relevance_threshold: float = 0.2, in twentieths.
DefaultRelevanceThreshold == 4

\* A document has at most this many segments.
MaxSegments == 2

\* What the completion call of the summarizer does: it raises, or answers
\* "[LOW CONTENT]", or a summary.
STSummaryOutcomes ==
    { [kind |-> "fail", time |-> 1, content |-> ""],
      [kind |-> "ok", prompt_tokens |-> 3, completion_tokens |-> 1,
       time |-> 1, content |-> "[LOW CONTENT]"],
      [kind |-> "ok", prompt_tokens |-> 3, completion_tokens |-> 1,
       time |-> 1, content |-> "TP53 binds HK2"] }

\* What the completion call of the entity extraction does: it raises, or
\* answers text that is not JSON, or a JSON array of two entities.
STEntityOutcomes ==
    { [kind |-> "fail", time |-> 1, content |-> <<>>],
      [kind |-> "unparsable", prompt_tokens |-> 3, completion_tokens |-> 1,
       time |-> 1, content |-> <<>>],
      [kind |-> "ok", prompt_tokens |-> 3, completion_tokens |-> 1,
       time |-> 1,
       content |-> << KGEntity(<<"t", "p", "5", "3">>, "Unknown", "N/A", <<>>),
                      KGEntity(<<"H", "K", "2">>, "Protein", "N/A", <<>>) >>] }

\* What the completion call of the relation extraction does; the array
\* proposes " tp53 " Treats HK2, HK2 binds k (k is no entity) and
\* TP53 treats "hk2 ".
STRelationOutcomes ==
    { [kind |-> "fail", time |-> 1, content |-> <<>>],
      [kind |-> "unparsable", prompt_tokens |-> 3, completion_tokens |-> 1,
       time |-> 1, content |-> <<>>],
      [kind |-> "ok", prompt_tokens |-> 3, completion_tokens |-> 1,
       time |-> 1,
       content |-> << [head |-> <<" ", "t", "p", "5", "3", " ">>, relation |-> <<"T", "r", "e", "a", "t", "s">>,
                       tail |-> <<"H", "K", "2">>, confidence |-> 16],
                      [head |-> <<"H", "K", "2">>, relation |-> <<"b", "i", "n", "d", "s">>,
                       tail |-> <<"k">>, confidence |-> 10],
                      [head |-> <<"T", "P", "5", "3">>, relation |-> <<"t", "r", "e", "a", "t", "s">>,
                       tail |-> <<"h", "k", "2", " ">>, confidence |-> 18] >>] }

\* self.metrics of the three agents after construction.
STMetrics ==
    [agent \in {"summarizer", "entity_extraction", "relationship_extraction"}
        |-> InitialMetrics]

STIdle ==
    /\ relevance_threshold = 0
    /\ scored_segments = <<>>
    /\ all_segments = <<>>
    /\ relevant_segments = <<>>
    /\ summarizer_input = <<>>
    /\ summaries = <<>>
    /\ extracted_entities = <<>>
    /\ relationships = <<>>
    /\ agent_metrics = <<>>
    /\ summarizer_calls = <<>>
    /\ entity_calls = <<>>
    /\ relation_calls = <<>>
    /\ stPc = "idle"

(***************************************************************************)
(* Inputs of the schema alignment and of the last stages                   *)
(***************************************************************************)
\* Names that meet one rule of _classify_entity_type, two of them, or none.
SANames ==
    { <<"s", "t", "a", "t", "i", "n">>, <<"S", "T", "A", "T", "I", "N">>,
      <<"T", "P", "5", "3">>, <<"A", "S", "E">>,
      <<"k", "i", "n", "a", "s", "e">>,
      <<"d", "i", "s", "e", "a", "s", "e">>,
      <<"c", "a", "n", "c", "e", "r">>, <<"w", "a", "t", "e", "r">>,
      <<"A", "T", " ", "C", "A", "N", "C", "E", "R", " ", "A">> }

\* Labels in and out of the synonyms, with capitals and with spaces around.
SARelations ==
    { <<" ", "I", "n", "h", "i", "b", "i", "t", "e", "d", " ">>,
      <<"i", "n", "h", "i", "b", "i", "t", "e", "d">>,
      <<"T", "r", "e", "a", "t">>, <<"b", "i", "n", "d", "s">>,
      <<" ", "T", "a", "p", "s", " ">> }

\* Bounds on the lists passed to SchemaAlignmentAgent.process.
MaxAlignedEntities == 1
MaxAlignedTriples == 2

SAIdle ==
    /\ saEntities = <<>>
    /\ saTriples = <<>>
    /\ saEntities0 = <<>>
    /\ saTriples0 = <<>>
    /\ saPc = "idle"

\* The entities Extract-Entities wrote: two without a type, one with.
PLEntities ==
    {KGEntity(<<"T", "P", "5", "3">>, "Unknown", "N/A", <<>>),
     KGEntity(<<"s", "t", "a", "t", "i", "n">>, "Unknown", "N/A", <<>>),
     KGEntity(<<"A", "S", "E">>, "Protein", "N/A", <<>>)}

\* The triples Extract-Relations wrote, their labels stripped; the last
\* one has scores that are not set.
PLTriples ==
    {KnowledgeTriple(<<"s", "t", "a", "t", "i", "n">>, <<"I", "n", "h", "i", "b", "i", "t", "e", "d">>, <<"T", "P", "5", "3">>, 14, 10, 10),
     KnowledgeTriple(<<"s", "t", "a", "t", "i", "n">>, <<"t", "r", "e", "a", "t", "s">>, <<"T", "P", "5", "3">>, 14, 10, 10),
     KnowledgeTriple(<<"T", "P", "5", "3">>, <<"b", "i", "n", "d", "s">>, <<"A", "S", "E">>, 14, 10, 10),
     KnowledgeTriple(<<"T", "P", "5", "3">>, <<"b", "i", "n", "d", "s">>, <<"A", "S", "E">>, 0, 0, 10)}

\* integrate_threshold: float = 0.6
DefaultIntegrateThreshold == 12

\* Bounds on the lists of the run record.
MaxRecordEntities == 1
MaxRecordTriples == 2

\* The stage-output fields of IntermediateOutput that hold objects.
RecordFields ==
    {"entities", "relationships", "aligned_entities", "aligned_triples",
     "final_triples", "integrated_triples"}

PLIdle ==
    /\ entity_objects = <<>>
    /\ triple_objects = <<>>
    /\ intermediate = <<>>
    /\ written = <<>>
    /\ plPc = "idle"

(***************************************************************************)
(* Inputs of the relation deduplication                                    *)
(***************************************************************************)
\* Triples from a to b whose keys are equal up to case, with equal and with
\* different confidences, their labels being forms of one verb; and two
\* triples whose fields differ and whose key strings are equal.
RDTriples ==
    { KnowledgeTriple(h, r, <<"b">>, c, 10, 10) :
        h \in {<<"a">>, <<"A">>},
        r \in {<<"i", "n", "h", "i", "b", "i", "t">>,
               <<"i", "n", "h", "i", "b", "i", "t", "e", "d">>,
               <<"I", "n", "h", "i", "b", "i", "t", "e", "d">>},
        c \in {10, 16} }
      \cup { KnowledgeTriple(<<"a", "_">>, <<"r">>, <<"b">>, 16, 10, 10),
             KnowledgeTriple(<<"a">>, <<"_", "r">>, <<"b">>, 10, 10, 10) }

\* The list passed to _deduplicate_relationships holds at most this many.
MaxRelations == 3

RDIdle ==
    /\ rdRelationships = <<>>
    /\ rdUnique = <<>>
    /\ rdAligned = <<>>
    /\ rdPc = "idle"

(***************************************************************************)
(* Inputs of the completion calls                                          *)
(***************************************************************************)
\* What a completion call does: the four ways of the try block, with
\* different token counts and times.
MTOutcomes ==
    { [kind |-> "fail", time |-> 0],
      [kind |-> "fail", time |-> 2],
      [kind |-> "no_content", time |-> 1],
      [kind |-> "no_usage", time |-> 1],
      [kind |-> "ok", prompt_tokens |-> 3, completion_tokens |-> 1, time |-> 2],
      [kind |-> "ok", prompt_tokens |-> 5, completion_tokens |-> 0, time |-> 0] }

\* An agent makes at most this many calls before its metrics are set again.
MaxCalls == 3

MTIdle ==
    /\ mtMetrics = <<>>
    /\ mtInvocations = 0
    /\ mtLast = <<>>
    /\ mtPc = "idle"

(***************************************************************************)
(* Inputs of the scoring of the segments                                   *)
(***************************************************************************)
\* The sections and word counts of the segments.
RSKinds ==
    { [section |-> "results", word_count |-> 120],
      [section |-> "references", word_count |-> 5] }

\* The lines a response is made of.
RSLines == <<"0.7", "Segment 2: 0.9", "-0.3", "high">>

\* What the completion call of a batch does: it raises, or it returns a
\* response of one to batch_size + 1 lines.
RSOutcomes ==
    { [kind |-> "fail"] } \cup
    { [kind |-> "ok",
       lines |-> [i \in 1..k |-> RSLines[((i + rot) % Len(RSLines)) + 1]]] :
        k \in 1..(batch_size + 1), rot \in 1..Len(RSLines) }

\* At most this many segments are scored.
MaxScored == 6

RSIdle ==
    /\ rsSegments = <<>>
    /\ rsScored = <<>>
    /\ rsCalls = <<>>
    /\ rsPc = "idle"

EarlyIdle == CRIdle /\ FCIdle /\ DEIdle /\ SCIdle /\ GAIdle
LaterIdle == RRIdle /\ STIdle /\ PLIdle /\ SAIdle /\ RDIdle /\ MTIdle /\ RSIdle


(***************************************************************************)
(* resolve_conflicts applied to a new batch and an accepted list           *)
(***************************************************************************)
CRInit ==
    /\ \E k \in 0..MaxCRTriples :
         \E s \in [1..k -> CRTriples] :
           \E m \in 0..k :
             /\ new_triples = SubSeq(s, 1, m)
             /\ existing_triples = SubSeq(s, m + 1, k)
    /\ final_triples = <<>>
    /\ crPc = "call"
    /\ FCIdle
    /\ DEIdle
    /\ SCIdle
    /\ GAIdle
    /\ LaterIdle

\* Mutant: an existing triple that loses a conflict is removed from the
\* accepted list.
ResolveConflictsCallInPlace ==
    /\ crPc = "call"
    /\ final_triples' = ResolveConflicts(new_triples, existing_triples)
    /\ existing_triples' =
           SelectSeq(existing_triples,
                     LAMBDA e :
                        ~\E i \in DOMAIN new_triples :
                            /\ FindContradiction(new_triples[i],
                                                 existing_triples) = <<e>>
                            /\ new_triples[i].confidence > e.confidence)
    /\ crPc' = "done"
    /\ UNCHANGED <<new_triples, fcVars, deVars, scVars, gaVars, laterVars>>

\* The call: existing_triples is read, never assigned.
ResolveConflictsCall ==
    /\ crPc = "call"
    /\ final_triples' = ResolveConflicts(new_triples, existing_triples)
    /\ crPc' = "done"
    /\ UNCHANGED <<new_triples, existing_triples, fcVars, deVars, scVars, gaVars, laterVars>>

CRNext == ResolveConflictsCall

SpecCR == CRInit /\ [][CRNext]_vars

(***************************************************************************)
(* _find_contradiction applied to a pair, in both orders                   *)
(***************************************************************************)
FCInit ==
    /\ fcA \in FCTriples
    /\ fcB \in FCTriples
    /\ fcAB = <<>>
    /\ fcBA = <<>>
    /\ fcPc = "call"
    /\ CRIdle
    /\ DEIdle
    /\ SCIdle
    /\ GAIdle
    /\ LaterIdle

FindContradictionCall ==
    /\ fcPc = "call"
    /\ fcAB' = FindContradiction(fcA, <<fcB>>)
    /\ fcBA' = FindContradiction(fcB, <<fcA>>)
    /\ fcPc' = "done"
    /\ UNCHANGED <<fcA, fcB, crVars, deVars, scVars, gaVars, laterVars>>

FCNext == FindContradictionCall

SpecFC == FCInit /\ [][FCNext]_vars

(***************************************************************************)
(* _deduplicate_entities applied to a list, then to its own result         *)
(***************************************************************************)
DEInit ==
    /\ \E n \in 0..MaxEntities :
         /\ entityHeap \in [1..n -> DEEntities]
         /\ entities = [i \in 1..n |-> i]
    /\ entities0 = entityHeap
    /\ unique1 = <<>>
    /\ result1 = <<>>
    /\ unique2 = <<>>
    /\ result2 = <<>>
    /\ dePc = "call"
    /\ CRIdle
    /\ FCIdle
    /\ SCIdle
    /\ GAIdle
    /\ LaterIdle

\* unique_entities = self._deduplicate_entities(all_entities)
DeduplicateCall ==
    /\ dePc = "call"
    /\ LET r == DeduplicateEntities(entityHeap, entities)
       IN  /\ entityHeap' = r.heap
           /\ unique1' = r.unique
           /\ result1' = Fields(r.heap, r.unique)
    /\ dePc' = "once"
    /\ UNCHANGED <<entities, entities0, unique2, result2, crVars, fcVars, scVars, gaVars, laterVars>>

\* The same operation on the list it returned.
DeduplicateAgain ==
    /\ dePc = "once"
    /\ LET r == DeduplicateEntities(entityHeap, unique1)
       IN  /\ entityHeap' = r.heap
           /\ unique2' = r.unique
           /\ result2' = Fields(r.heap, r.unique)
    /\ dePc' = "twice"
    /\ UNCHANGED <<entities, entities0, unique1, result1, crVars, fcVars, scVars, gaVars, laterVars>>

DENext == DeduplicateCall \/ DeduplicateAgain

SpecDE == DEInit /\ [][DENext]_vars

(***************************************************************************)
(* _aggregate_scores applied to a triple and to the triple with one        *)
(* sub-score raised                                                        *)
(***************************************************************************)
\* u is t with one of its three sub-scores raised or left as it is.
RaisedOnce(t, u) ==
    \/ /\ u.confidence >= t.confidence
       /\ u.clarity = t.clarity /\ u.relevance = t.relevance
    \/ /\ u.clarity >= t.clarity
       /\ u.confidence = t.confidence /\ u.relevance = t.relevance
    \/ /\ u.relevance >= t.relevance
       /\ u.confidence = t.confidence /\ u.clarity = t.clarity

SCInit ==
    /\ scT \in SCTriples
    /\ scU \in {u \in SCTriples : RaisedOnce(scT, u)}
    /\ scoreT = 0
    /\ scoreU = 0
    /\ scPc = "call"
    /\ CRIdle
    /\ FCIdle
    /\ DEIdle
    /\ GAIdle
    /\ LaterIdle

AggregateScoresCall ==
    /\ scPc = "call"
    /\ scoreT' = AggregateScores(scT)
    /\ scoreU' = AggregateScores(scU)
    /\ scPc' = "done"
    /\ UNCHANGED <<scT, scU, crVars, fcVars, deVars, gaVars, laterVars>>

SCNext == AggregateScoresCall

SpecSC == SCInit /\ [][SCNext]_vars

(***************************************************************************)
(* finalize_triples applied to a list of candidates                        *)
(***************************************************************************)
GAInit ==
    /\ integrate_threshold \in GAThresholds
    /\ \E n \in 0..MaxCandidates : candidate_triples \in [1..n -> GATriples]
    /\ candidates0 = candidate_triples
    /\ integrated_triples = <<>>
    /\ gaPc = "call"
    /\ CRIdle
    /\ FCIdle
    /\ DEIdle
    /\ SCIdle
    /\ LaterIdle

\* The call: the loop assigns to the candidates' fields.
FinalizeTriplesCall ==
    /\ gaPc = "call"
    /\ LET r == FinalizeTriples(candidate_triples, integrate_threshold)
       IN  /\ candidate_triples' = r.heap
           /\ integrated_triples' = r.integrated
    /\ gaPc' = "done"
    /\ UNCHANGED <<integrate_threshold, candidates0, crVars, fcVars, deVars, scVars, laterVars>>

GANext == FinalizeTriplesCall

SpecGA == GAInit /\ [][GANext]_vars

(***************************************************************************)
(* save_to_file on a run record, then load_from_file on the file           *)
(***************************************************************************)
RRInit ==
    /\ run_record \in RRRecords
    /\ json_file = <<>>
    /\ loaded_record = <<>>
    /\ rrPc = "save"
    /\ EarlyIdle
    /\ STIdle
    /\ PLIdle
    /\ SAIdle
    /\ RDIdle
    /\ MTIdle
    /\ RSIdle

SaveToFile ==
    /\ rrPc = "save"
    /\ json_file' = ToDict(run_record)
    /\ rrPc' = "load"
    /\ UNCHANGED <<run_record, loaded_record, earlyVars, stVars, plVars, saVars, rdVars, mtVars, rsVars>>

LoadFromFileCall ==
    /\ rrPc = "load"
    /\ loaded_record' = LoadFromFile(json_file)
    /\ rrPc' = "done"
    /\ UNCHANGED <<run_record, json_file, earlyVars, stVars, plVars, saVars, rdVars, mtVars, rsVars>>

SpecRR == RRInit /\ [][SaveToFile \/ LoadFromFileCall]_vars


(***************************************************************************)
(* The stages on one document: ReaderAgent.process, SummarizerAgent.process *)
(* on one of the two lists it returned, EntityExtractionAgent.process on   *)
(* the summaries, RelationshipExtractionAgent.process on the summaries and *)
(* the entities.                                                           *)
(***************************************************************************)
STInit ==
    /\ relevance_threshold = DefaultRelevanceThreshold
    /\ \E n \in 0..MaxSegments : scored_segments \in [1..n -> STSegments]
    /\ all_segments = <<>>
    /\ relevant_segments = <<>>
    /\ summarizer_input = <<>>
    /\ summaries = <<>>
    /\ extracted_entities = <<>>
    /\ relationships = <<>>
    /\ agent_metrics = STMetrics
    /\ summarizer_calls = <<>>
    /\ entity_calls = <<>>
    /\ relation_calls = <<>>
    /\ stPc = "read"
    /\ EarlyIdle
    /\ RRIdle
    /\ PLIdle
    /\ SAIdle
    /\ RDIdle
    /\ MTIdle
    /\ RSIdle

\* ReaderAgent.process: returns (scored_segments, relevant_segments).
ReaderProcess ==
    /\ stPc = "read"
    /\ all_segments' = scored_segments
    /\ relevant_segments' = RelevantSegments(scored_segments, relevance_threshold)
    /\ stPc' = "summarize"
    /\ UNCHANGED <<relevance_threshold, scored_segments, summarizer_input,
                   summaries, extracted_entities, relationships,
                   agent_metrics, summarizer_calls, entity_calls,
                   relation_calls, earlyVars, rrVars, plVars, saVars, rdVars, mtVars, rsVars>>

\* SummarizerAgent.process(segments, relevance_threshold).
SummarizerCall ==
    /\ stPc = "summarize"
    /\ \E segments \in {all_segments, relevant_segments} :
         \E outcomes \in [DOMAIN segments -> STSummaryOutcomes] :
           \E r \in {SummarizerProcess(agent_metrics["summarizer"], segments,
                                       relevance_threshold, outcomes, 1,
                                       <<>>, <<>>)} :
               /\ summarizer_input' = segments
               /\ summaries' = r.summaries
               /\ summarizer_calls' = r.calls
               /\ agent_metrics' =
                      [agent_metrics EXCEPT !["summarizer"] = r.metrics]
    /\ stPc' = "entities"
    /\ UNCHANGED <<relevance_threshold, scored_segments, all_segments,
                   relevant_segments, extracted_entities, relationships,
                   entity_calls, relation_calls, earlyVars, rrVars, plVars, saVars, rdVars, mtVars, rsVars>>

\* EntityExtractionAgent.process(summaries).
EntityCall ==
    /\ stPc = "entities"
    /\ \E outcomes \in [DOMAIN summaries -> STEntityOutcomes] :
         \E r \in {EntityProcess(agent_metrics["entity_extraction"],
                                 summaries, outcomes)} :
             /\ extracted_entities' = r.entities
             /\ entity_calls' = r.calls
             /\ agent_metrics' =
                    [agent_metrics EXCEPT !["entity_extraction"] = r.metrics]
             /\ stPc' = IF r.raised THEN "raised" ELSE "relations"
    /\ UNCHANGED <<relevance_threshold, scored_segments, all_segments,
                   relevant_segments, summarizer_input, summaries,
                   relationships, summarizer_calls, relation_calls,
                   earlyVars, rrVars, plVars, saVars, rdVars, mtVars, rsVars>>

\* RelationshipExtractionAgent.process(summaries, entities).
RelationCall ==
    /\ stPc = "relations"
    /\ \E outcomes \in [DOMAIN summaries -> STRelationOutcomes] :
         \E r \in {RelationProcess(agent_metrics["relationship_extraction"],
                                   summaries, extracted_entities, outcomes)} :
             /\ relationships' = r.relationships
             /\ relation_calls' = r.calls
             /\ agent_metrics' =
                    [agent_metrics EXCEPT
                        !["relationship_extraction"] = r.metrics]
    /\ stPc' = "done"
    /\ UNCHANGED <<relevance_threshold, scored_segments, all_segments,
                   relevant_segments, summarizer_input, summaries,
                   extracted_entities, summarizer_calls, entity_calls,
                   earlyVars, rrVars, plVars, saVars, rdVars, mtVars, rsVars>>

SpecST ==
    STInit /\ [][ReaderProcess \/ SummarizerCall \/ EntityCall \/ RelationCall]_vars

(***************************************************************************)
(* SchemaAlignmentAgent.process applied to a list of entities and a list   *)
(* of triples                                                              *)
(***************************************************************************)
\* The first n objects, in order: a list of n objects.
Ids(n) == [k \in 1..n |-> k]

SAInit ==
    /\ \E n \in 0..MaxAlignedEntities :
           saEntities \in
               [1..n -> {KGEntity(name, ty, "N/A", <<>>) :
                            name \in SANames, ty \in {"Unknown", "Drug"}}]
    /\ \E n \in 0..MaxAlignedTriples :
           saTriples \in
               [1..n -> {KnowledgeTriple(<<"a">>, r, <<"b">>, 14, 10, 10) :
                            r \in SARelations}]
    /\ saEntities0 = saEntities
    /\ saTriples0 = saTriples
    /\ saPc = "call"
    /\ EarlyIdle
    /\ RRIdle
    /\ STIdle
    /\ PLIdle
    /\ RDIdle
    /\ MTIdle
    /\ RSIdle

\* process: align_entities, then align_relationships; both assign to the
\* objects of the list they are given.
SchemaAlignmentProcess ==
    /\ saPc = "call"
    /\ saEntities' = AlignEntities(saEntities, Ids(Len(saEntities)))
    /\ saTriples' = AlignRelationships(saTriples, Ids(Len(saTriples)))
    /\ saPc' = "done"
    /\ UNCHANGED <<saEntities0, saTriples0, earlyVars, rrVars, stVars, plVars, rdVars, mtVars, rsVars>>

SpecSA == SAInit /\ [][SchemaAlignmentProcess]_vars


(***************************************************************************)
(* The last stages on one document.  The run record holds the lists the    *)
(* stages return, and a list holds objects: the record is modelled as      *)
(* lists of object ids, the objects apart.  The document is the first of   *)
(* a run, so the accepted list Resolve-Conflicts reads is empty.           *)
(***************************************************************************)
PLInit ==
    /\ \E n \in 0..MaxRecordEntities : entity_objects \in [1..n -> PLEntities]
    /\ \E n \in 0..MaxRecordTriples : triple_objects \in [1..n -> PLTriples]
    /\ intermediate =
           [f \in RecordFields |->
               IF f = "entities" THEN Ids(Len(entity_objects))
               ELSE IF f = "relationships" THEN Ids(Len(triple_objects))
               ELSE <<>>]
    /\ written =
           [f \in RecordFields |->
               IF f = "entities" THEN entity_objects
               ELSE IF f = "relationships" THEN triple_objects
               ELSE <<>>]
    /\ plPc = "align"
    /\ EarlyIdle
    /\ RRIdle
    /\ STIdle
    /\ SAIdle
    /\ RDIdle
    /\ MTIdle
    /\ RSIdle

\* Normalize-Schema: SchemaAlignmentAgent.process on the outputs of the two
\* extraction stages; the two lists it returns are written to the record.
NormalizeSchema ==
    /\ plPc = "align"
    /\ entity_objects' = AlignEntities(entity_objects, intermediate.entities)
    /\ triple_objects' =
           AlignRelationships(triple_objects, intermediate.relationships)
    /\ intermediate' =
           [intermediate EXCEPT
               !.aligned_entities = intermediate.entities,
               !.aligned_triples = intermediate.relationships]
    /\ written' =
           [written EXCEPT
               !.aligned_entities =
                   Fields(entity_objects', intermediate.entities),
               !.aligned_triples =
                   Fields(triple_objects', intermediate.relationships)]
    /\ plPc' = "resolve"
    /\ UNCHANGED <<earlyVars, rrVars, stVars, saVars, rdVars, mtVars, rsVars>>

\* Resolve-Conflicts: resolve_conflicts on the aligned triples and the
\* empty accepted list; the list it returns is written to the record.
ResolveStage ==
    /\ plPc = "resolve"
    /\ \E kept \in {SelectSeq(intermediate.aligned_triples,
                               LAMBDA k : Keeps(triple_objects[k], <<>>))} :
           /\ intermediate' = [intermediate EXCEPT !.final_triples = kept]
           /\ written' =
                  [written EXCEPT !.final_triples = Fields(triple_objects, kept)]
    /\ plPc' = "gate"
    /\ UNCHANGED <<entity_objects, triple_objects, earlyVars, rrVars, stVars, saVars, rdVars, mtVars, rsVars>>

\* Quality-Gate: finalize_triples on the resolved triples; the list it
\* returns is written to the record.
QualityGate ==
    /\ plPc = "gate"
    /\ \E r \in {FinalizeTriples(
                      Fields(triple_objects, intermediate.final_triples),
                      DefaultIntegrateThreshold)} :
       \E list \in {intermediate.final_triples} :
       \E integrated \in {[j \in DOMAIN r.integrated |-> list[r.integrated[j]]]} :
           /\ triple_objects' =
                  [k \in DOMAIN triple_objects |->
                      IF \E j \in DOMAIN list : list[j] = k
                      THEN r.heap[CHOOSE j \in DOMAIN list : list[j] = k]
                      ELSE triple_objects[k]]
           /\ intermediate' =
                  [intermediate EXCEPT !.integrated_triples = integrated]
           /\ written' =
                  [written EXCEPT
                      !.integrated_triples =
                          Fields(triple_objects', integrated)]
    /\ plPc' = "done"
    /\ UNCHANGED <<entity_objects, earlyVars, rrVars, stVars, saVars, rdVars, mtVars, rsVars>>

SpecPL == PLInit /\ [][NormalizeSchema \/ ResolveStage \/ QualityGate]_vars


(***************************************************************************)
(* _deduplicate_relationships applied to a list of triples, then           *)
(* align_relationships applied to the list it returned                     *)
(***************************************************************************)
RDInit ==
    /\ \E n \in 0..MaxRelations : rdRelationships \in [1..n -> RDTriples]
    /\ rdUnique = <<>>
    /\ rdAligned = <<>>
    /\ rdPc = "call"
    /\ EarlyIdle
    /\ RRIdle
    /\ STIdle
    /\ PLIdle
    /\ SAIdle
    /\ MTIdle
    /\ RSIdle

\* _deduplicate_relationships(relationships)
DeduplicateRelationshipsCall ==
    /\ rdPc = "call"
    /\ rdUnique' = DeduplicateRelationships(rdRelationships, 1, <<>>, <<>>)
    /\ rdPc' = "unique"
    /\ UNCHANGED <<rdRelationships, rdAligned, earlyVars, rrVars, stVars, plVars, saVars, mtVars, rsVars>>

\* align_relationships on the deduplicated list.
AlignRelationshipsCall ==
    /\ rdPc = "unique"
    /\ rdAligned' = AlignRelationships(rdUnique, Ids(Len(rdUnique)))
    /\ rdPc' = "aligned"
    /\ UNCHANGED <<rdRelationships, rdUnique, earlyVars, rrVars, stVars, plVars, saVars, mtVars, rsVars>>

SpecRD == RDInit /\ [][DeduplicateRelationshipsCall \/ AlignRelationshipsCall]_vars


(***************************************************************************)
(* The metrics of one agent: the completion calls it makes during a run,   *)
(* and reset_metrics, which no method of an agent calls: it is left to     *)
(* the owner of the agent, between two runs                                *)
(***************************************************************************)
\* The agent is constructed and a run starts.
MTInit ==
    /\ mtMetrics = InitialMetrics
    /\ mtInvocations = 0
    /\ mtLast = <<>>
    /\ mtPc = "run"
    /\ EarlyIdle
    /\ RRIdle
    /\ STIdle
    /\ PLIdle
    /\ SAIdle
    /\ RDIdle
    /\ RSIdle

\* A call of _make_llm_call by a method of the agent.
LlmCall ==
    /\ mtPc = "run"
    /\ mtInvocations < MaxCalls
    /\ \E outcome \in MTOutcomes :
       \E call \in {MakeLlmCall(mtMetrics, outcome)} :
           /\ mtMetrics' = call.metrics
           /\ mtLast' = [outcome |-> outcome, before |-> mtMetrics,
                         raised |-> call.raised]
    /\ mtInvocations' = mtInvocations + 1
    /\ UNCHANGED <<mtPc, earlyVars, rrVars, stVars, plVars, saVars, rdVars, rsVars>>

\* The run completes.
RunCompletes ==
    /\ mtPc = "run"
    /\ mtPc' = "complete"
    /\ UNCHANGED <<mtMetrics, mtInvocations, mtLast, earlyVars, rrVars, stVars, plVars, saVars, rdVars, rsVars>>

\* The next run starts.
RunStarts ==
    /\ mtPc = "complete"
    /\ mtPc' = "run"
    /\ UNCHANGED <<mtMetrics, mtInvocations, mtLast, earlyVars, rrVars, stVars, plVars, saVars, rdVars, rsVars>>

\* reset_metrics, called by the owner of the agent between two runs.
ResetMetricsCall ==
    /\ mtPc = "complete"
    /\ mtMetrics' = InitialMetrics
    /\ mtInvocations' = 0
    /\ mtLast' = <<>>
    /\ UNCHANGED <<mtPc, earlyVars, rrVars, stVars, plVars, saVars, rdVars, rsVars>>

SpecMT ==
    MTInit /\ [][LlmCall \/ RunCompletes \/ RunStarts \/ ResetMetricsCall]_vars


(***************************************************************************)
(* ReaderAgent._score_segments_batch: one step per batch of the loop       *)
(***************************************************************************)
\* _score_segments_batch is called with a list of segments.
RSInit ==
    /\ \E n \in 0..MaxScored :
         \E kinds \in [1..n -> RSKinds] :
             rsSegments = [i \in 1..n |->
                              [id |-> i, section |-> kinds[i].section,
                               word_count |-> kinds[i].word_count]]
    /\ rsScored = <<>>
    /\ rsCalls = <<>>
    /\ rsPc = "score"
    /\ EarlyIdle
    /\ RRIdle
    /\ STIdle
    /\ PLIdle
    /\ SAIdle
    /\ RDIdle
    /\ MTIdle

\* One turn of the loop over range(0, len(segments), batch_size): the batch
\* is scored by one call of _batch_score_relevance and each of its segments
\* is appended with its score.
ScoreBatch ==
    /\ rsPc = "score"
    /\ Len(rsScored) < Len(rsSegments)
    /\ LET i == Len(rsScored) + 1
           last == IF i + batch_size - 1 < Len(rsSegments)
                   THEN i + batch_size - 1 ELSE Len(rsSegments)
           batch == SubSeq(rsSegments, i, last)
       IN \E outcome \in RSOutcomes :
          \E scores \in {BatchScoreRelevance(batch, outcome)} :
              /\ rsScored' = rsScored \o
                     [j \in DOMAIN batch |->
                         [id |-> batch[j].id, section |-> batch[j].section,
                          word_count |-> batch[j].word_count,
                          score |-> IF j <= Len(scores) THEN scores[j]
                                    ELSE GetDefaultScore(batch[j])]]
              /\ rsCalls' = Append(rsCalls,
                     [batch |-> [j \in DOMAIN batch |-> batch[j].id],
                      outcome |-> outcome])
    /\ UNCHANGED <<rsSegments, rsPc, earlyVars, rrVars, stVars, plVars, saVars, rdVars, mtVars>>

\* The loop has ended: return scored_segments.
ScoreSegmentsReturn ==
    /\ rsPc = "score"
    /\ Len(rsScored) >= Len(rsSegments)
    /\ rsPc' = "done"
    /\ UNCHANGED <<rsSegments, rsScored, rsCalls, earlyVars, rrVars, stVars, plVars, saVars, rdVars, mtVars>>

SpecRS == RSInit /\ [][ScoreBatch \/ ScoreSegmentsReturn]_vars


(***************************************************************************)
(* Claims about the conflict resolver                                      *)
(***************************************************************************)
\* What _find_contradiction returned for the i-th new triple.
FoundFor(i) == FindContradiction(new_triples[i], existing_triples)

\* C1: after resolve_conflicts(new, existing), the accepted set (the
\* existing triples together with the returned ones) never holds both
\* members of a contradicting pair detected between a new triple and an
\* existing triple.  The existing member is always in the accepted set, so
\* the new member must not have been returned.
C1_NeverBothOfDetectedPair ==
    crPc = "done" =>
        \A i \in DOMAIN new_triples :
            FoundFor(i) # <<>> =>
                ~ ( /\ FoundFor(i)[1] \in Range(existing_triples \o final_triples)
                    /\ new_triples[i] \in Range(final_triples) )

\* C2: a new triple for which a contradicting existing triple is found is
\* returned exactly when its confidence is strictly greater than that
\* existing triple's confidence; on a tie or a lower confidence it is
\* dropped.
C2_KeptOnlyIfStrictlyGreater ==
    crPc = "done" =>
        \A i \in DOMAIN new_triples :
            FoundFor(i) # <<>> =>
                ( new_triples[i] \in Range(final_triples)
                    <=> new_triples[i].confidence > FoundFor(i)[1].confidence )

\* C2 witness: one new triple ties with the existing triple it contradicts
\* and is dropped, another exceeds it and is returned.
C2_Witness ==
    /\ crPc = "done"
    /\ \E i \in DOMAIN new_triples :
         /\ FoundFor(i) # <<>>
         /\ new_triples[i].confidence = FoundFor(i)[1].confidence
         /\ new_triples[i] \notin Range(final_triples)
    /\ \E j \in DOMAIN new_triples :
         /\ FoundFor(j) # <<>>
         /\ new_triples[j].confidence > FoundFor(j)[1].confidence
         /\ new_triples[j] \in Range(final_triples)

\* C3: the contradiction test is symmetric: fcA is found to contradict fcB
\* (fcA as new, [fcB] as existing) exactly when fcB is found to contradict
\* fcA.
C3_ContradictionSymmetric ==
    fcPc = "done" => ((fcAB # <<>>) <=> (fcBA # <<>>))

\* C3 witness: a contradiction found in both orders, for a pair of labels
\* the table lists in one order only, between names that differ in case.
C3_Witness ==
    /\ fcPc = "done"
    /\ fcAB = <<fcB>>
    /\ fcBA = <<fcA>>
    /\ fcA.relation = "activates"
    /\ fcB.relation = "inhibits"
    /\ fcA.head # fcB.head

\* The opposed pairs, unordered.
OpposedPairs ==
    { {"treats", "causes"}, {"inhibits", "activates"},
      {"increases", "decreases"}, {"upregulates", "downregulates"} }

\* Equality of two names up to the case of their letters.
EqualIgnoringCase(s, t) ==
    /\ Len(s) = Len(t)
    /\ \A i \in DOMAIN s : s[i] = t[i] \/ LowerChar(s[i]) = LowerChar(t[i])

\* C4: _find_contradiction reports a contradiction between a new and an
\* existing triple if and only if heads and tails are equal up to case and
\* the two relation labels are one of the opposed pairs, in either order;
\* it reports none otherwise, two equal labels included.
C4_ContradictionIff ==
    fcPc = "done" =>
        /\ (fcAB # <<>>) <=>
              ( /\ EqualIgnoringCase(fcA.head, fcB.head)
                /\ EqualIgnoringCase(fcA.tail, fcB.tail)
                /\ {fcA.relation, fcB.relation} \in OpposedPairs )
        /\ fcAB # <<>> => fcAB = <<fcB>>
        /\ fcA.relation = fcB.relation => fcAB = <<>>

\* C4 witness: a contradiction reported between triples whose heads and
\* whose tails differ in case only.
C4_Witness ==
    /\ fcPc = "done"
    /\ fcAB # <<>>
    /\ fcA.head # fcB.head
    /\ fcA.tail # fcB.tail

(***************************************************************************)
(* Claims about entity deduplication                                       *)
(***************************************************************************)
\* The identity key of an entity: its display name, lowercased and trimmed.
IdentityKey(name) == Strip(Lower(name))

\* Two result lists hold the same records: names, types, ontology
\* references and alias sets.
SameRecords(r, q) ==
    /\ Len(r) = Len(q)
    /\ \A i \in DOMAIN r :
         /\ r[i].name = q[i].name
         /\ r[i].entity_type = q[i].entity_type
         /\ r[i].normalized_id = q[i].normalized_id
         /\ Range(r[i].aliases) = Range(q[i].aliases)

\* C5: deduplication is idempotent: applied to its own result it returns
\* the same records as applied once.
C5_DedupIdempotent ==
    dePc = "twice" => SameRecords(result2, result1)

\* C5 witness: the first call merged two entities, and the second call has
\* returned.
C5_Witness ==
    /\ dePc = "twice"
    /\ Len(entities0) = 2
    /\ Len(result1) = 1
    /\ result1[1] # entities0[1]

\* C6: no two returned entities share an identity key, and every identity
\* key of the input is the key of a returned entity.
C6_UniqueKeysAllPresent ==
    dePc \in {"once", "twice"} =>
        /\ \A i, j \in DOMAIN result1 :
             i # j => IdentityKey(result1[i].name) # IdentityKey(result1[j].name)
        /\ \A i \in DOMAIN entities0 :
             \E j \in DOMAIN result1 :
                 IdentityKey(result1[j].name) = IdentityKey(entities0[i].name)

\* C6 witness: two input entities whose names differ but share a key are
\* returned as one.
C6_Witness ==
    /\ dePc = "once"
    /\ Len(entities0) = 2
    /\ entities0[1].name # entities0[2].name
    /\ IdentityKey(entities0[1].name) = IdentityKey(entities0[2].name)
    /\ Len(result1) = 1

\* The input positions whose entity has the key of name, in input order.
Occurrences(name) ==
    {i \in DOMAIN entities0 : IdentityKey(entities0[i].name) = IdentityKey(name)}

Least(S) == CHOOSE i \in S : \A j \in S : i <= j

\* The first value of a field that is not the default, among positions S.
FirstSet(S, field, default) ==
    LET set == {i \in S : field[i] # default}
    IN  IF set = {} THEN default ELSE field[Least(set)]

\* C7: the record returned for a key keeps the display name of the first
\* occurrence, has the first type that is not "Unknown" and the first
\* ontology reference that is not "N/A" among the occurrences in input
\* order (the default if there is none), and the union of their aliases.
C7_MergeRule ==
    dePc \in {"once", "twice"} =>
        \A j \in DOMAIN result1 :
            LET occ == Occurrences(result1[j].name)
            IN  /\ occ # {}
                /\ result1[j].name = entities0[Least(occ)].name
                /\ result1[j].entity_type =
                      FirstSet(occ, [i \in occ |-> entities0[i].entity_type], "Unknown")
                /\ result1[j].normalized_id =
                      FirstSet(occ, [i \in occ |-> entities0[i].normalized_id], "N/A")
                /\ Range(result1[j].aliases) =
                      UNION {Range(entities0[i].aliases) : i \in occ}

\* C7 witness: {name "TP", type "Unknown"} and {name "tp ", type "Gene",
\* aliases ["p53"]} have merged into {name "TP", type "Gene", aliases
\* ["p53"]}.
C7_Witness ==
    /\ dePc = "once"
    /\ Len(entities0) = 2
    /\ entities0[1].name = <<"T", "P">> /\ entities0[1].entity_type = "Unknown"
    /\ entities0[1].aliases = <<>>
    /\ entities0[2].name = <<"t", "p", " ">> /\ entities0[2].entity_type = "Gene"
    /\ entities0[2].aliases = <<"p53">>
    /\ Len(result1) = 1
    /\ result1[1].name = <<"T", "P">>
    /\ result1[1].entity_type = "Gene"
    /\ result1[1].aliases = <<"p53">>

(***************************************************************************)
(* Claims about the integration score and the quality gate                 *)
(***************************************************************************)
\* C8: for sub-scores in [0, 1] the integration score lies in [0, 1], and
\* raising one sub-score with the other two fixed never lowers it.  The
\* scores here are four times the score in twentieths.
C8_ScoreBoundedMonotone ==
    scPc = "done" =>
        /\ 0 <= scoreT /\ scoreT <= 4 * One
        /\ 0 <= scoreU /\ scoreU <= 4 * One
        /\ scoreT <= scoreU

\* C8 witness: relevance alone was raised, and the score rose with it.
C8_Witness ==
    /\ scPc = "done"
    /\ scU.relevance > scT.relevance
    /\ scU.confidence = scT.confidence
    /\ scU.clarity = scT.clarity
    /\ scoreU > scoreT

\* A sub-score as the gate reads it: 0.5 when it is <= 0.
Effective(x) == IF x <= 0 THEN DefaultScore ELSE x

\* The rule of admission, on the scores the candidate had at the call.
Admitted(i) ==
    2 * Effective(candidates0[i].confidence)
      + Effective(candidates0[i].clarity)
      + Effective(candidates0[i].relevance) >= 4 * integrate_threshold

\* The triples admitted are exactly those of the rule, in input order.
AdmissionRule ==
    /\ \A i \in DOMAIN candidates0 :
         i \in Range(integrated_triples) <=> Admitted(i)
    /\ \A j, k \in DOMAIN integrated_triples :
         j < k => integrated_triples[j] < integrated_triples[k]

\* Candidate i was passed in with these scores, in twentieths.
HasScores(i, c, cl, rv) ==
    /\ candidates0[i].confidence = c
    /\ candidates0[i].clarity = cl
    /\ candidates0[i].relevance = rv

C10_PureFilter ==
    gaPc = "done" =>
        /\ \A j \in DOMAIN integrated_triples :
             LET i == integrated_triples[j]
             IN  /\ candidate_triples[i].confidence = candidates0[i].confidence
                 /\ candidate_triples[i].clarity = candidates0[i].clarity
                 /\ candidate_triples[i].relevance = candidates0[i].relevance
        /\ candidate_triples = candidates0

\* C18: resolve_conflicts only reads the accepted list: the call leaves it
\* with the same triples in the same order, every field as it was, whatever
\* the new batch holds and whichever side wins each conflict.
C18_ExistingOnlyRead ==
    [][crPc = "call" /\ crPc' = "done" => existing_triples' = existing_triples]_vars

\* The call has returned a new triple that won its conflict; the existing
\* triple that lost it is still in the accepted list of two.
C18_Witness ==
    /\ crPc = "done"
    /\ Len(existing_triples) = 2
    /\ \E i \in DOMAIN new_triples :
         /\ FoundFor(i) # <<>>
         /\ new_triples[i].confidence > FoundFor(i)[1].confidence
         /\ new_triples[i] \in Range(final_triples)
         /\ FoundFor(i)[1] \in Range(existing_triples)

(***************************************************************************)
(* Claims about the run record                                             *)
(***************************************************************************)
\* C11: load_from_file(save_to_file(r)) equals r field by field, every
\* nested list with its elements of their original class, metadata a
\* DocumentMetadata or None and metrics a ProcessingMetrics.
C11_RoundTrip ==
    rrPc = "done" =>
        \A key \in DOMAIN run_record : loaded_record[key] = run_record[key]

(***************************************************************************)
(* Claims about the stages from the reader to the relation extraction      *)
(***************************************************************************)
SENTINEL == "[OMITTED - Low Relevance]"

\* The stage named has returned.
Past(stage) ==
    CASE stage = "read" -> stPc \in {"summarize", "entities", "relations", "done"}
      [] stage = "summarize" -> stPc \in {"entities", "relations", "done"}
      [] stage = "entities" -> stPc \in {"relations", "done"}
      [] stage = "relations" -> stPc = "done"

\* C12: a segment scored below the relevance threshold is in the list of
\* all segments the reader returns and not in the relevant list; given to
\* the summarizer its summary is the sentinel; and whichever of the two
\* lists is summarised, no call of the entity extraction is made for it.
C12_LowSegmentKeptNotExtracted ==
    /\ Past("read") =>
         /\ all_segments = scored_segments
         /\ \A j \in DOMAIN relevant_segments :
              relevant_segments[j].score >= relevance_threshold
    /\ Past("summarize") =>
         \A i \in DOMAIN summarizer_input :
           summarizer_input[i].score < relevance_threshold =>
             summaries[i] = SENTINEL
    /\ Past("entities") =>
         \A c \in Range(entity_calls) :
           summarizer_input[c.index].score >= relevance_threshold

C12_Witness ==
    /\ Past("entities")
    /\ summarizer_input = all_segments
    /\ \E i \in DOMAIN all_segments :
         all_segments[i].score < relevance_threshold
    /\ \A j \in DOMAIN relevant_segments :
         relevant_segments[j].score >= relevance_threshold
    /\ Len(relevant_segments) < Len(all_segments)
    /\ entity_calls # <<>>

\* C13: the summarizer returns one summary per segment passed, the i-th
\* being the summary of the i-th segment: the sentinel when its score is
\* below the threshold, its own text when that has fewer than 15 words,
\* otherwise its key sentences or the answer of the completion call; and
\* neither extraction agent calls its extraction on a sentinel summary.
C13_OneSummaryPerSegment ==
    /\ Past("summarize") =>
         /\ Len(summaries) = Len(summarizer_input)
         /\ \A i \in DOMAIN summarizer_input :
              LET segment == summarizer_input[i]
              IN  IF segment.score < relevance_threshold
                  THEN summaries[i] = SENTINEL
                  ELSE IF segment.text = "TP53 is up"
                  THEN summaries[i] = "TP53 is up"
                  ELSE summaries[i] \in
                         {"HK2 is up in it so we do go to it as if by an ox or so...",
                          "TP53 binds HK2"}
    /\ Past("entities") =>
         \A c \in Range(entity_calls) :
           c.text = summaries[c.index] /\ c.text # SENTINEL
    /\ Past("relations") =>
         \A c \in Range(relation_calls) :
           c.text = summaries[c.index] /\ c.text # SENTINEL

C13_Witness ==
    /\ stPc = "done"
    /\ Len(summaries) = 2
    /\ summaries[1] = SENTINEL
    /\ summaries[2] = "TP53 binds HK2"
    /\ Len(entity_calls) = 1
    /\ Len(relation_calls) = 1
    /\ relation_calls[1].outcome = "ok"

CountCalls(calls, outcomes) ==
    Cardinality({k \in DOMAIN calls : calls[k].outcome \in outcomes})

\* C15: for a completion call of the entity extraction that fails, and for
\* one that answers text that cannot be parsed, the patterns' entities are
\* substituted and the agent's error counter is incremented.
C15_FallbackAndCounted ==
    Past("entities") =>
        /\ \A c \in Range(entity_calls) :
             c.outcome \in {"fail", "unparsable"} =>
               c.result = FallbackEntityExtraction(c.text)
        /\ agent_metrics["entity_extraction"].error_count =
             CountCalls(entity_calls, {"fail", "unparsable"})

\* C20: every triple RelationshipExtractionAgent.process returns has a
\* head and a tail that are, letter case apart, names of entities passed
\* to the call; of the relations a completion call proposes, exactly those
\* whose stripped head and tail are both such names become triples.
NameOfEntity(name) ==
    \E k \in DOMAIN extracted_entities :
        Lower(extracted_entities[k].name) = Lower(name)

C20_HeadAndTailAreEntities ==
    stPc = "done" =>
        /\ \A k \in DOMAIN relationships :
             /\ NameOfEntity(relationships[k].head)
             /\ NameOfEntity(relationships[k].tail)
        /\ \A c \in Range(relation_calls) :
             LET accepted ==
                     SelectSeq(c.proposed,
                               LAMBDA d : /\ NameOfEntity(Strip(d.head))
                                          /\ NameOfEntity(Strip(d.tail)))
             IN  /\ c.outcome = "ok" => Len(c.result) = Len(accepted)
                 /\ \A k \in DOMAIN c.result :
                      /\ c.result[k].head = Strip(accepted[k].head)
                      /\ c.result[k].tail = Strip(accepted[k].tail)

C20_Witness ==
    /\ stPc = "done"
    /\ relationships # <<>>
    /\ \E c \in Range(relation_calls) :
         /\ Len(c.proposed) = 3
         /\ Len(c.result) = 2
         /\ c.result[1].head = <<"t", "p", "5", "3">>


(***************************************************************************)
(* Claims about the schema alignment                                       *)
(***************************************************************************)
\* The canonical form of a label: lowercased and stripped, then its synonym
\* if it has one.
Canonical(label) ==
    LET key == Strip(Lower(label))
    IN  IF \E p \in synonyms : p[1] = key
        THEN (CHOOSE p \in synonyms : p[1] = key)[2]
        ELSE key

\* C16: the normalizer lowercases and trims every label and maps it through
\* the synonyms: after the call every triple's label is the canonical form
\* of the label it had at the call, a label absent from the synonyms being
\* returned lowercased and trimmed.
C16_NormalizedIsCanonical ==
    saPc = "done" =>
        \A i \in DOMAIN saTriples :
            saTriples[i].relation = Canonical(saTriples0[i].relation)

\* C17: the type given to an entity that had none is that of the first rule
\* that holds of its name, in the order drug, gene, protein, disease; it is
\* the default "Chemical" when no rule holds.
C17_FirstMatchingRuleWins ==
    saPc = "done" =>
        \A i \in DOMAIN saEntities :
            saEntities0[i].entity_type = "Unknown" =>
                LET n == saEntities0[i].name
                    ty == saEntities[i].entity_type
                IN  /\ DrugRule(n) => ty = "Drug"
                    /\ ~DrugRule(n) /\ GeneRule(n) => ty = "Gene"
                    /\ ~DrugRule(n) /\ ~GeneRule(n) /\ ProteinRule(n)
                           => ty = "Protein"
                    /\ ~DrugRule(n) /\ ~GeneRule(n) /\ ~ProteinRule(n)
                           /\ DiseaseRule(n)
                           => ty = "Disease"
                    /\ ~DrugRule(n) /\ ~GeneRule(n) /\ ~ProteinRule(n)
                           /\ ~DiseaseRule(n)
                           => ty = "Chemical"

\* A name that meets both the drug rule and the gene rule has been typed.
C17_Witness ==
    /\ saPc = "done"
    /\ \E i \in DOMAIN saEntities :
           /\ saEntities0[i].entity_type = "Unknown"
           /\ DrugRule(saEntities0[i].name)
           /\ GeneRule(saEntities0[i].name)
           /\ saEntities[i].entity_type = "Drug"


(***************************************************************************)
(* Claims about the run record and the last stages                         *)
(***************************************************************************)
\* The objects a field of the run record holds, as they are now.
FieldNow(f) ==
    Fields(IF f \in {"entities", "aligned_entities"}
           THEN entity_objects ELSE triple_objects,
           intermediate[f])

\* C19: the run record is append-only: a field a stage has written holds,
\* after every later stage, what it held when it was written: the labels of
\* relationships and the types of entities after Normalize-Schema, and the
\* scores recorded by the earlier stages after Quality-Gate.
C19_RecordAppendOnly == \A f \in RecordFields : FieldNow(f) = written[f]


(***************************************************************************)
(* Further claims about the conflict resolver                              *)
(***************************************************************************)
\* The positions of the existing triples that contradict the i-th new one.
Hits(i) ==
    {j \in DOMAIN existing_triples :
        Contradicts(existing_triples[j], new_triples[i])}

\* C22: only the first existing triple, in list order, that contradicts a
\* new triple is considered: the new triple is returned exactly when its
\* confidence is greater than that triple's, whatever the confidence of a
\* later existing triple that contradicts it too.
C22_FirstFoundDecides ==
    crPc = "done" =>
        \A i \in DOMAIN new_triples :
            Hits(i) # {} =>
                ( new_triples[i] \in Range(final_triples)
                    <=> new_triples[i].confidence
                          > existing_triples[Least(Hits(i))].confidence )

\* A new triple is contradicted by two existing triples and decided against
\* the first: it is returned although the later one has its confidence.
C22_Witness ==
    /\ crPc = "done"
    /\ \E i \in DOMAIN new_triples :
         \E j, k \in Hits(i) :
           /\ j = Least(Hits(i))
           /\ j < k
           /\ new_triples[i].confidence > existing_triples[j].confidence
           /\ new_triples[i].confidence = existing_triples[k].confidence
           /\ new_triples[i] \in Range(final_triples)

RECURSIVE Restrict(_, _, _)
\* The elements of s at the positions in S, from position i on, in order.
Restrict(s, S, i) ==
    IF i > Len(s) THEN <<>>
    ELSE (IF i \in S THEN <<s[i]>> ELSE <<>>) \o Restrict(s, S, i + 1)

\* C23: the returned list is the new batch restricted to some positions, in
\* the order of the batch; the positions of the new triples that contradict
\* no existing triple are among them; so the accepted set holds at most
\* len(new) + len(existing) triples.
C23_SubSequenceWithAllFree ==
    crPc = "done" =>
        /\ \E S \in SUBSET DOMAIN new_triples :
             /\ final_triples = Restrict(new_triples, S, 1)
             /\ \A i \in DOMAIN new_triples : Hits(i) = {} => i \in S
        /\ Len(existing_triples) + Len(final_triples)
             <= Len(new_triples) + Len(existing_triples)

\* Of two new triples the first is dropped; the second, which contradicts
\* nothing, is returned.
C23_Witness ==
    /\ crPc = "done"
    /\ Len(new_triples) = 2
    /\ Len(existing_triples) = 1
    /\ Hits(1) # {}
    /\ Hits(2) = {}
    /\ final_triples = <<new_triples[2]>>

InUnit(t) ==
    /\ t.confidence \in 0..One
    /\ t.clarity \in 0..One
    /\ t.relevance \in 0..One

\* u is t with one sub-score raised from a value greater than 0.
RaisedFromPositive(t, u) ==
    \/ /\ t.confidence > 0 /\ u.confidence > t.confidence
       /\ u.clarity = t.clarity /\ u.relevance = t.relevance
    \/ /\ t.clarity > 0 /\ u.clarity > t.clarity
       /\ u.confidence = t.confidence /\ u.relevance = t.relevance
    \/ /\ t.relevance > 0 /\ u.relevance > t.relevance
       /\ u.confidence = t.confidence /\ u.clarity = t.clarity

\* C28 as stated: of two candidates with sub-scores in [0, 1], the second
\* being the first with one sub-score raised, also from exactly 0, the
\* second is admitted whenever the first is.
C28_AdmissionMonotone ==
    gaPc = "done" =>
        \A i, j \in DOMAIN candidates0 :
            ( /\ InUnit(candidates0[i])
              /\ InUnit(candidates0[j])
              /\ RaisedOnce(candidates0[i], candidates0[j])
              /\ i \in Range(integrated_triples) )
                => j \in Range(integrated_triples)

\* C28: of two candidates with sub-scores in [0, 1], the second being the
\* first with one sub-score raised from a value greater than 0, the second
\* is admitted whenever the first is.
C28_AdmissionMonotoneFromPositive ==
    gaPc = "done" =>
        \A i, j \in DOMAIN candidates0 :
            ( /\ InUnit(candidates0[i])
              /\ InUnit(candidates0[j])
              /\ RaisedFromPositive(candidates0[i], candidates0[j])
              /\ i \in Range(integrated_triples) )
                => j \in Range(integrated_triples)

\* Two candidates, the second with a sub-score raised from a positive
\* value, were both admitted; the first one has another sub-score at 0.
C28_Witness ==
    /\ gaPc = "done"
    /\ Len(candidates0) = 2
    /\ InUnit(candidates0[1])
    /\ RaisedFromPositive(candidates0[1], candidates0[2])
    /\ candidates0[1].clarity = 0
    /\ integrated_triples = <<1, 2>>


IdKey(t) == <<Lower(t.head), Lower(t.relation), Lower(t.tail)>>

\* The positions of the triples passed in that have the identity key of t.
SameKey(t) ==
    {k \in DOMAIN rdRelationships : IdKey(rdRelationships[k]) = IdKey(t)}

\* C24: the list returned holds at most one triple per identity key, and
\* the triple it holds for a key is the earliest of the triples passed in
\* that have the greatest confidence among those with that key.
C24_OnePerKeyGreatestConfidence ==
    rdPc \in {"unique", "aligned"} =>
        /\ \A i, j \in DOMAIN rdUnique :
             i # j => IdKey(rdUnique[i]) # IdKey(rdUnique[j])
        /\ \A i \in DOMAIN rdUnique :
             LET t == rdUnique[i]
                 best == {k \in SameKey(t) :
                            \A m \in SameKey(t) :
                               rdRelationships[m].confidence
                                 <= rdRelationships[k].confidence}
             IN  /\ best # {}
                 /\ t = rdRelationships[Least(best)]

\* Three triples with one key were passed, the first of lower confidence
\* than the two others, which are written differently: the second is kept.
C24_Witness ==
    /\ rdPc = "unique"
    /\ Len(rdRelationships) = 3
    /\ SameKey(rdRelationships[1]) = {1, 2, 3}
    /\ rdRelationships[1].confidence < rdRelationships[2].confidence
    /\ rdRelationships[2].confidence = rdRelationships[3].confidence
    /\ rdRelationships[2] # rdRelationships[3]
    /\ rdUnique = <<rdRelationships[2]>>

\* C26: after the deduplication and then the normalization of the labels,
\* no two triples of the list have the same identity key.
C26_UniqueAfterNormalization ==
    rdPc = "aligned" =>
        \A i, j \in DOMAIN rdAligned :
            i # j => IdKey(rdAligned[i]) # IdKey(rdAligned[j])


(***************************************************************************)
(* Claims about the metrics of an agent                                    *)
(***************************************************************************)
\* The five counters of self.metrics.
Counters ==
    {"total_calls", "total_prompt_tokens", "total_completion_tokens",
     "total_time", "error_count"}

\* What the call described by last adds to a counter.
Amount(last, counter) ==
    CASE counter = "total_time" -> last.outcome.time
      [] counter = "error_count" -> IF last.raised THEN 1 ELSE 0
      [] counter = "total_calls" -> IF last.raised THEN 0 ELSE 1
      [] counter = "total_prompt_tokens" ->
            IF last.raised THEN 0 ELSE last.outcome.prompt_tokens
      [] counter = "total_completion_tokens" ->
            IF last.raised THEN 0 ELSE last.outcome.completion_tokens

\* C21: during a run no step lowers a counter or sets it
\* again, and a completion call, successful or failed, adds to each counter
\* the amount of that call.
C21_CountersOnlyGrow ==
    [][mtPc = "run" =>
          \A c \in Counters :
              /\ mtMetrics'[c] >= mtMetrics[c]
              /\ mtInvocations' # mtInvocations =>
                   mtMetrics'[c] = mtMetrics[c] + Amount(mtLast', c)]_vars

\* During a run the agent has made a successful call, then a failed one;
\* the counters hold what the two calls added.
C21_Witness ==
    /\ mtPc = "run"
    /\ mtInvocations = 2
    /\ mtLast # <<>>
    /\ mtLast.raised
    /\ mtLast.before.total_calls = 1
    /\ mtMetrics.total_calls = 1
    /\ mtMetrics.error_count = 1
    /\ mtMetrics.total_prompt_tokens > 0
    /\ mtMetrics.total_time > mtLast.before.total_time

ChunkIds(k, n) ==
    LET first == batch_size * (k - 1) + 1
        last == IF batch_size * k < n THEN batch_size * k ELSE n
    IN [j \in 1..(last - first + 1) |-> first + j - 1]

\* C25: segment scoring takes the segments in consecutive chunks of 5, with
\* one completion call per chunk, in order; it returns the same segments in
\* the order of the input, each scored once with a score in [0,1]: from its
\* line when the call returned one for it (lines beyond the chunk being
\* ignored), 0.5 when the response had fewer lines, and the default score of
\* its section when the call failed.
C25_ChunksOfFiveEveryScoreInUnit ==
    LET n == Len(rsSegments) IN
    /\ \A k \in DOMAIN rsCalls :
           rsCalls[k].batch # <<>> /\ rsCalls[k].batch = ChunkIds(k, n)
    /\ Len(rsScored) =
           IF batch_size * Len(rsCalls) < n THEN batch_size * Len(rsCalls) ELSE n
    /\ rsPc = "done" => Len(rsScored) = n
    /\ \A i \in DOMAIN rsScored :
           LET k == ((i - 1) \div batch_size) + 1
               j == i - batch_size * (k - 1)
               outcome == rsCalls[k].outcome
               scored == rsScored[i]
           IN /\ scored.id = rsSegments[i].id
              /\ scored.section = rsSegments[i].section
              /\ scored.word_count = rsSegments[i].word_count
              /\ scored.score \in 0..100
              /\ outcome.kind = "fail" =>
                     scored.score = GetDefaultScore(rsSegments[i])
              /\ outcome.kind = "ok" /\ j > Len(outcome.lines) =>
                     scored.score = HalfScore
              /\ outcome.kind = "ok" /\ j <= Len(outcome.lines) =>
                     scored.score =
                         ExtractFloatFromText(outcome.lines[j], HalfScore)

\* Six segments were scored in two chunks: the first call returned fewer
\* lines than the five segments of its chunk, one of them above 1.0, and the
\* second returned more lines than the one segment of its chunk.
C25_Witness ==
    /\ rsPc = "done"
    /\ Len(rsSegments) = 6
    /\ Len(rsCalls) = 2
    /\ rsCalls[1].outcome.kind = "ok"
    /\ Len(rsCalls[1].outcome.lines) = 3
    /\ rsCalls[1].outcome.lines[2] = "Segment 2: 0.9"
    /\ rsScored[2].score = 100
    /\ rsScored[5].score = HalfScore
    /\ rsCalls[2].outcome.kind = "ok"
    /\ Len(rsCalls[2].outcome.lines) = 2


====
